---- MODULE Spec2Model ----
(***************************************************************************)
(* Model of pycertifspec.Client (src/pycertifspec/Client.py).              *)
(*                                                                         *)
(* The client owns two sockets.  The event socket carries REGISTER and     *)
(* UNREGISTER frames out and property events in; the command socket        *)
(* carries run/get/set/abort frames out and replies in.  Caller threads    *)
(* and the two listener threads interleave between Python statements; an   *)
(* action of the model is one statement (or a run of statements that touch *)
(* no shared state), labelled with its line in Client.py.                  *)
(***************************************************************************)
EXTENDS Integers, Sequences, FiniteSets, TLC

VARIABLES
    \* ---- Client fields used by the event socket (Client.__init__) ----
    subscriptions,      \* self._subscriptions: name -> sequence of callbacks
    event_lock,         \* self._event_lock: the thread holding it, or "free"
    event_available,    \* self._event_available: the flag of the threading.Event
    last_event,         \* self._last_event: the last frame the listener read
    \* ---- the event socket and its server ----
    regCount,           \* REGISTER frames written to event_sock, per name
    unregCount,         \* UNREGISTER frames written to event_sock, per name
    serverRegs,         \* names the server holds a registration for
    nEvents,            \* events the server has sent so far
    \* ---- _threaded_event_listener ----
    lpc,                \* its position
    lres,               \* its local res
    invoked,            \* per callback: threads started with it as target
    \* ---- caller threads ----
    pc,                 \* position of each caller thread
    op,                 \* the call a thread runs or ran last
    ret,                \* what that call returned or raised
    nCalls,             \* calls started so far
    \* ---- history of a subscribe call that waits (for the claims) ----
    decider,            \* first event of the target or of "error" signalled
                        \* between the REGISTER and the return of the call
    how,                \* how the wait of line 162 ended: "woke" or "timeout"
    touched,            \* unsubscribe: the pair was registered at some moment
                        \* of the call
    \* ---- Client fields used by the command socket (Client.__init__) ----
    lock,               \* self._lock (an RLock): the thread holding it, or "free"
    sn_counter,         \* self._sn_counter
    reply_events,       \* self._reply_events: serial number -> "unset" or "set"
                        \* (a threading.Event) or "callback"
    reply_data,         \* self._reply_data: serial number -> reply frame
    screen_print,       \* self._screen_print, a sequence of characters
    \* ---- the command socket and its server ----
    cmd_wire,           \* frames _send_data has written to self.sock, in order
    nReplies,           \* frames the server has sent on self.sock so far
    \* ---- _threaded_reply_listener ----
    rpc,                \* its position
    rres,               \* its local res
    cbInvoked,          \* serial number -> threads started with the one-shot
                        \* callback registered for it
    \* ---- locals of the caller threads in run, get, set, _send_data ----
    tsn,                \* sn
    rtext,              \* the console text a blocking run returned (line 230)
    \* ---- history of a blocking run (for the claims) ----
    seen,               \* the output the listener received between the
                        \* sending of the command and the receipt of its
                        \* reply, and whether the reply is still to come
    \* ---- a Motor of this client (Motor.py) and its server ----
    move_done_attr,     \* self._move_done: the body of the last event stored
    cond_lock,          \* the lock of _observed_properties_conditions
                        \* ["move_done"]: the thread holding it, or "free"
    cond_waiters,       \* threads inside its wait() that are not notified yet
    mpc,                \* position of the thread in moveto ("main") and of
                        \* the thread running wait_for_finish ("bg")
    mop,                \* the arguments of the moveto call: blocking, callback
    mret,               \* how moveto ended: "ok" or "Exception"
    mres,               \* res of line 137: None, or the err of the reply
    fresh,              \* per thread: body of the reply of get("move_done")
    cmd_state,          \* the move command: "none", "sent", or "taken" by
                        \* the server
    cmd_err,            \* the error code the server gave the command
    srv_move,           \* the motor in the server: "idle", "moving", "done"
    cbs,                \* threads started by the event listener for
                        \* set_and_notify that have not finished
    nMotorEvents,       \* events of the motor the listener has read
    nMoves,             \* moveto calls so far
    cbCalls,            \* calls of the callback given to moveto
    \* ---- the threads the listeners start for callbacks ----
    running,            \* per callback: threads started with it as target
                        \* that have not ended
    raised,             \* the callbacks a thread of which ended with an
                        \* exception
    \* ---- a frame on its way through the codec (SpecSocket.py, Client.py) ----
    tx,                 \* the arguments of the send
    stream,             \* the bytes written and not read yet
    rx,                 \* what the receive returned or raised
    \* ---- a variable of the server seen through Var / ArrayVar ----
    var_res,            \* res: the reply of conn.get("var/<name>")
    var_value,          \* what Var.value returned or raised for var_res
    arr_shape,          \* what ArrayVar.shape returned or raised for var_res
    arr_sent,           \* the commands the array object gave to conn.run
    arr_result,         \* how the last operation on the array object ended
    \* ---- SpecSocket.connect_spec ----
    to_scan,            \* the candidates, in the order they are tried
    scan_i,             \* the candidates the loop has gone through
    sock,               \* the socket: "fresh", "connected" or "unusable"
    tried,              \* per candidate gone through: what the server at
                        \* that port does with a connection
    conn_result,        \* the call: "idle", "scanning", "returned" with
                        \* the port, or "Exception"
    \* ---- Client.count ----
    cnt_pc,             \* position of the count call in lines 366-384
    countvals,          \* the dict countvals: per counter its value
    got,                \* float(res.body) of the reply of the get of
                        \* line 380
    subs_before,        \* _subscriptions when count was called
    has_callback,       \* whether count was given a callback
    \* ---- bluesky.Counter ----
    data_threads,       \* threads with _data_callback as target: how many
                        \* have not started and how many are filling data
    data,               \* self.data: "empty" or the value of the counter
    status,             \* self.status: "none", "pending" or "finished"
    \* ---- the body loop of recv_spec and _listen ----
    rd_pc,              \* "idle", "loop" or "returned"
    rd_reader,          \* which of the two receivers is reading
    rd_len,             \* res.len of the header just read
    bleft,              \* the local bleft
    rd_read,            \* len(body): bytes of the stream consumed into body
    rd_asked,           \* the largest argument recv was called with
    \* ---- several Motor objects of one client ----
    obj,                \* per Motor object: its life cycle, the index of
                        \* the loop of __init__ or __del__, self.name, the
                        \* variable prop of its __init__ and its attribute
                        \* _move_done
    conditions,         \* Motor._observed_properties_conditions: per
                        \* property a Condition, 0 without an entry
    observed_cbs,       \* Motor._observed_properties_cbs
    motor_subs,         \* _subscriptions of the client for the properties
                        \* of motors; <<>> without an entry
    motor_events,       \* events of motors the listener has not read
    cb_threads,         \* threads started with a set_and_notify as target
    mv,                 \* per Motor object its blocking moveto call
    cond_owner,         \* per Condition the holder of its lock
    srv_motor,          \* per motor of the server: "idle" or "moving"
    n_ev,               \* events sent so far
    n_mv                \* moveto calls so far

evars == <<subscriptions, event_lock, event_available, last_event, regCount,
           unregCount, serverRegs, nEvents, lpc, lres, invoked>>
tvars == <<pc, op, ret, nCalls, decider, how, touched>>
cvars == <<lock, sn_counter, reply_events, reply_data, screen_print,
           cmd_wire, nReplies, rpc, rres, cbInvoked, tsn, rtext, seen>>
mvars == <<move_done_attr, cond_lock, cond_waiters, mpc, mop, mret, mres,
           fresh, cmd_state, cmd_err, srv_move, cbs, nMotorEvents, nMoves,
           cbCalls>>
dvars == <<running, raised>>
avars == <<var_res, var_value, arr_shape, arr_sent, arr_result>>
svars == <<to_scan, scan_i, sock, tried, conn_result>>
kvars == <<cnt_pc, countvals, got, subs_before, has_callback>>
bvars == <<data_threads, data, status>>
hvars == <<rd_pc, rd_reader, rd_len, bleft, rd_read, rd_asked>>
gvars == <<obj, conditions, observed_cbs, motor_subs, motor_events,
           cb_threads, mv, cond_owner, srv_motor, n_ev, n_mv>>
uvars == <<hvars, gvars>>
ovars == <<avars, svars, kvars, bvars, uvars>>
pvars == <<tx, stream, rx, ovars>>
xvars == <<dvars, pvars>>
vars == <<evars, tvars, cvars, mvars, xvars>>

\* ------------------------------------------------------------------ bounds
MaxCalls == 3       \* calls the caller threads start in one behaviour
MaxEvents == 2      \* events the server sends in one behaviour
MaxCmdCalls == 2    \* calls on the command socket in one behaviour
MaxReplies == 2     \* frames the server sends on the command socket
MaxMoves == 1       \* moveto calls in one behaviour

\* ---------------------------------------------------------------- universe
Threads == {"t1", "t2"}
Props == {"p", "q"}
ErrorName == "error"
Names == Props \cup {ErrorName}
Callbacks == {"cb1", "cb2"}
CbOf(t) == IF t = "t1" THEN "cb1" ELSE "cb2"
ErrCallback == "cb0"            \* the lambda __init__ subscribes to "error"
OneShot == "cb9"                \* the callback given to run (line 220)
CountCallback == "count_callback"  \* the closure of count (line 367)
AllCallbacks == Callbacks \cup {ErrCallback, OneShot, CountCallback}
NoError == "No error"
PropBodies == {"v"}
ErrorBodies == {NoError, "bad"}
None == [name |-> "None", body |-> "None"]
NoOp == [kind |-> "none", prop |-> "none", cb |-> "none", nowait |-> FALSE,
         first |-> FALSE, blocking |-> FALSE, hascb |-> FALSE]

Events == [name : Props, body : PropBodies]
            \cup [name : {ErrorName}, body : ErrorBodies]

\* -------------------------------------------------------- list operations
\* callback in list
InList(cb, l) == \E i \in 1..Len(l) : l[i] = cb

\* list.remove(x): drops the first occurrence
RECURSIVE ListRemove(_, _)
ListRemove(l, cb) ==
    IF l = <<>> THEN <<>>
    ELSE IF Head(l) = cb THEN Tail(l)
    ELSE <<Head(l)>> \o ListRemove(Tail(l), cb)

\* del d[k]
DictDel(d, k) == [x \in (DOMAIN d) \ {k} |-> d[x]]

\* d[k] = v
DictSet(d, k, v) == [x \in (DOMAIN d) \cup {k} |-> IF x = k THEN v ELSE d[x]]

\* {}
EmptyDict == [x \in {} |-> 0]

\* frames on the command socket
NoOutput == [open |-> FALSE, text |-> <<>>]
OutputName == "output/tty"
ReplyTypes == {"STRING", "ERROR"}
NoFrame == [name |-> "None", sn |-> 0, type |-> "None", body |-> <<>>]

\* ------------------------------------------------------------------ Motor
\* the thread that calls moveto, and the thread moveto starts for
\* wait_for_finish (Motor.py line 157)
MotorThreads == {"main", "bg"}

\* bodies of the events of motor/<mne>/move_done: SPEC sends nonzero while
\* the motor is busy (Motor.py line 43)
Busy == "1"
Idle == "0"

\* body of an event of motor/<mne>/position
PositionBodies == {"10"}

\* the value of res (Motor.py line 137) when run returns None
NoRes == [isNone |-> TRUE, err |-> 0]

\* float(val) for the bodies above
FloatIsZero(val) == val = "0"

\* a getter that forgets that SPEC reports nonzero for a busy motor
MoveDoneNotInverted(val) == ~FloatIsZero(val)

\* Motor.py lines 17-18, MotorProperty.__get__ of move_done on the cached
\* value: not bool(float(val))
MoveDone(val) == FloatIsZero(val)

\* A motor after Motor.__init__ (Motor.py lines 71-85) on an idle motor: the
\* three properties are subscribed and the first event of move_done has
\* been stored.  After the loop of line 77 the variable prop of the three
\* closures set_and_notify is "move_done".
MotorInit ==
    /\ move_done_attr = Idle
    /\ cond_lock = "free"
    /\ cond_waiters = {}
    /\ mpc = [th \in MotorThreads |-> "idle"]
    /\ mop = [blocking |-> FALSE, hascb |-> FALSE]
    /\ mret = "none"
    /\ mres = NoRes
    /\ fresh = [th \in MotorThreads |-> "none"]
    /\ cmd_state = "none"
    /\ cmd_err = 0
    /\ srv_move = "idle"
    /\ cbs = {}
    /\ nMotorEvents = 0
    /\ nMoves = 0
    /\ cbCalls = 0

\* nothing has been given to the codec
NoTx == [path |-> "none"]
NoRx == [status |-> "none"]
\* no reply for a variable has been read and no operation on an array
\* object has been called
NoVarRes == [type |-> -1]
NoValue == [status |-> "none"]
VarIdle ==
    /\ var_res = NoVarRes
    /\ var_value = NoValue
    /\ arr_shape = NoValue
    /\ arr_sent = <<>>
    /\ arr_result = [op |-> "none", outcome |-> "none"]

\* a socket after SpecSocket(), before connect_spec
Conn(st) == [status |-> st, port |-> 0]
Found(p) == [status |-> "returned", port |-> p]
SocketIdle ==
    /\ to_scan = <<>>
    /\ scan_i = 0
    /\ sock = "fresh"
    /\ tried = <<>>
    /\ conn_result = Conn("idle")

\* count has not been called
CountIdle ==
    /\ cnt_pc = "idle"
    /\ countvals = EmptyDict
    /\ got = "none"
    /\ subs_before = EmptyDict
    /\ has_callback = FALSE

\* a Counter after construction: no trigger yet
NoThreads == [new |-> 0, filling |-> 0]
CounterIdle ==
    /\ data_threads = NoThreads
    /\ data = "empty"
    /\ status = "none"

\* no receiver is reading a body
ReaderIdle ==
    /\ rd_pc = "idle"
    /\ rd_reader = "none"
    /\ rd_len = 0
    /\ bleft = 0
    /\ rd_read = 0
    /\ rd_asked = 0

\* Motor.py lines 67-69 when the class has been defined and no Motor object
\* has been made
Objects == {"m1", "m2"}
MotorNames == {"a", "b"}
observed_properties == <<"position", "dial_position", "move_done">>
ObservedSet == {observed_properties[i] : i \in 1..3}
MotorKeys == [mne : MotorNames, prop : ObservedSet]
NoObject ==
    [state |-> "none", i |-> 0, mne |-> "none", prop |-> "none",
     move_done |-> "unset"]
NoMove == [pc |-> "idle", held |-> 0, waiting |-> 0, ret |-> "none"]
MotorsIdle ==
    /\ obj = [m \in Objects |-> NoObject]
    /\ conditions = [p \in ObservedSet |-> 0]
    /\ observed_cbs = <<>>
    /\ motor_subs = [k \in MotorKeys |-> <<>>]
    /\ motor_events = <<>>
    /\ cb_threads = {}
    /\ mv = [m \in Objects |-> NoMove]
    /\ cond_owner = [c \in 1..(3 * Cardinality(Objects)) |-> "free"]
    /\ srv_motor = [n \in MotorNames |-> "idle"]
    /\ n_ev = 0
    /\ n_mv = 0

ObjectsIdle ==
    /\ VarIdle /\ SocketIdle /\ CountIdle /\ CounterIdle /\ ReaderIdle
    /\ MotorsIdle

CodecIdle ==
    /\ tx = NoTx
    /\ stream = <<>>
    /\ rx = NoRx
    /\ ObjectsIdle

\* no thread of a callback has been started
DispatchInit ==
    /\ running = [c \in AllCallbacks |-> 0]
    /\ raised = {}

\* ------------------------------------------------------------------- Init
\* The client when __init__ has built its fields, started the listeners and
\* sent HELLO and the REGISTER frames of "error" and "output/tty" (lines
\* 31-73): "error" is subscribed with nowait, nothing has been received.
\* The get and run calls of _get_counter_names (line 75) go through the
\* same methods as any later call; cmd_wire and sn_counter count from the
\* value of line 50, and the frames of lines 66 and 71, which __init__
\* writes with sock.send directly, are not part of cmd_wire.
Init ==
    /\ subscriptions = [n \in {ErrorName} |-> <<ErrCallback>>]
    /\ event_lock = "free"
    /\ event_available = FALSE
    /\ last_event = None
    /\ regCount = [n \in Names |-> IF n = ErrorName THEN 1 ELSE 0]
    /\ unregCount = [n \in Names |-> 0]
    /\ serverRegs = {ErrorName}
    /\ nEvents = 0
    /\ lpc = "l327"
    /\ lres = None
    /\ invoked = [c \in Callbacks \cup {ErrCallback} |-> 0]
    /\ pc = [t \in Threads |-> "idle"]
    /\ op = [t \in Threads |-> NoOp]
    /\ ret = [t \in Threads |-> "none"]
    /\ nCalls = 0
    /\ decider = [t \in Threads |-> "none"]
    /\ how = [t \in Threads |-> "none"]
    /\ touched = [t \in Threads |-> FALSE]
    /\ lock = "free"
    /\ sn_counter = 0
    /\ reply_events = EmptyDict
    /\ reply_data = EmptyDict
    /\ screen_print = <<>>
    /\ cmd_wire = <<>>
    /\ nReplies = 0
    /\ rpc = "r311"
    /\ rres = NoFrame
    /\ cbInvoked = EmptyDict
    /\ tsn = [t \in Threads |-> 0]
    /\ rtext = [t \in Threads |-> <<>>]
    /\ seen = [t \in Threads |-> NoOutput]
    /\ MotorInit
    /\ DispatchInit
    /\ CodecIdle

\* --------------------------------------------------------------- helpers
\* a call ends: the thread is idle again and its result is recorded
Return(t, r) ==
    /\ pc' = [pc EXCEPT ![t] = "idle"]
    /\ ret' = [ret EXCEPT ![t] = r]

Goto(t, l) ==
    /\ pc' = [pc EXCEPT ![t] = l]
    /\ ret' = ret

\* `with self._event_lock:` blocks until the lock is free
EventLockFree(t) == event_lock = "free"

\* leaving the `with` block, by return or by exception
ReleaseEventLock == event_lock' = "free"

StartCall(t, o) ==
    /\ pc[t] = "idle"
    /\ nCalls < MaxCalls
    /\ nCalls' = nCalls + 1
    /\ op' = [op EXCEPT ![t] = o]
    /\ decider' = [decider EXCEPT ![t] = "none"]
    /\ how' = [how EXCEPT ![t] = "none"]

\* the pair (p, cb) enters the table: every unsubscribe call in progress for
\* that pair has seen it registered
Registered(p, cb) ==
    touched' = [t \in Threads |->
                  \/ touched[t]
                  \/ /\ pc[t] # "idle"
                     /\ op[t].kind = "unsubscribe"
                     /\ op[t].prop = p
                     /\ op[t].cb = cb]

\* --------------------------------------------------------------- subscribe
\* line 154: if prop not in self._subscriptions.keys()
SubscribeCall(t, p, cb, nw) ==
    /\ StartCall(t, [kind |-> "subscribe", prop |-> p, cb |-> cb,
                     nowait |-> nw, first |-> p \notin DOMAIN subscriptions,
                     blocking |-> FALSE, hascb |-> FALSE])
    /\ IF p \notin DOMAIN subscriptions
          THEN Goto(t, "s155") ELSE Goto(t, "s171")
    /\ touched' = [touched EXCEPT ![t] = FALSE]
    /\ UNCHANGED evars
    /\ UNCHANGED <<cvars, mvars, xvars>>

\* line 155: self._subscriptions[prop] = [callback]
S155(t) ==
    /\ pc[t] = "s155"
    /\ subscriptions' = DictSet(subscriptions, op[t].prop, <<op[t].cb>>)
    /\ Registered(op[t].prop, op[t].cb)
    /\ Goto(t, "s158")
    /\ UNCHANGED <<event_lock, event_available, last_event, regCount,
                   unregCount, serverRegs, nEvents, lpc, lres, invoked>>
    /\ UNCHANGED <<op, nCalls, decider, how>>
    /\ UNCHANGED <<cvars, mvars, xvars>>

\* line 158: with self._event_lock
S158(t) ==
    /\ pc[t] = "s158"
    /\ EventLockFree(t)
    /\ event_lock' = t
    /\ Goto(t, "s159")
    /\ UNCHANGED <<subscriptions, event_available, last_event, regCount,
                   unregCount, serverRegs, nEvents, lpc, lres, invoked>>
    /\ UNCHANGED <<op, nCalls, decider, how, touched>>
    /\ UNCHANGED <<cvars, mvars, xvars>>

\* line 159: self.event_sock.send(...) is entered; the first bytes of the
\* frame are on the stream
S159(t) ==
    /\ pc[t] = "s159"
    /\ Goto(t, "s159s")
    /\ UNCHANGED evars
    /\ UNCHANGED <<op, nCalls, decider, how, touched>>
    /\ UNCHANGED <<cvars, mvars, xvars>>

\* lines 159-161: the REGISTER frame is written; if nowait: return True
S159Sent(t) ==
    /\ pc[t] = "s159s"
    /\ regCount' = [regCount EXCEPT ![op[t].prop] = @ + 1]
    /\ serverRegs' = serverRegs \cup {op[t].prop}
    /\ IF op[t].nowait
          THEN Return(t, "True") /\ ReleaseEventLock
          ELSE Goto(t, "s162") /\ UNCHANGED event_lock
    /\ UNCHANGED <<subscriptions, event_available, last_event,
                   unregCount, nEvents, lpc, lres, invoked>>
    /\ UNCHANGED <<op, nCalls, decider, how, touched>>
    /\ UNCHANGED <<cvars, mvars, xvars>>

\* line 162: self._event_available.wait(timeout) finds the flag set
S162Wake(t) ==
    /\ pc[t] = "s162"
    /\ event_available
    /\ how' = [how EXCEPT ![t] = "woke"]
    /\ Goto(t, "s163")
    /\ UNCHANGED evars
    /\ UNCHANGED <<op, nCalls, decider, touched>>
    /\ UNCHANGED <<cvars, mvars, xvars>>

\* lines 162, 167-168: the wait times out with the flag clear; return False
S162Timeout(t) ==
    /\ pc[t] = "s162"
    /\ ~event_available
    /\ how' = [how EXCEPT ![t] = "timeout"]
    /\ Return(t, "False")
    /\ ReleaseEventLock
    /\ UNCHANGED <<subscriptions, event_available, last_event, regCount,
                   unregCount, serverRegs, nEvents, lpc, lres, invoked>>
    /\ UNCHANGED <<op, nCalls, decider, touched>>
    /\ UNCHANGED <<cvars, mvars, xvars>>

\* line 163: self._event_available.clear()
S163(t) ==
    /\ pc[t] = "s163"
    /\ event_available' = FALSE
    /\ Goto(t, "s164")
    /\ UNCHANGED <<subscriptions, event_lock, last_event, regCount,
                   unregCount, serverRegs, nEvents, lpc, lres, invoked>>
    /\ UNCHANGED <<op, nCalls, decider, how, touched>>
    /\ UNCHANGED <<cvars, mvars, xvars>>

\* line 164: the condition on self._last_event
IsErrorEvent(ev) == ev.name = ErrorName /\ ev.body # NoError

\* line 164, and line 173 when the condition is false
S164(t) ==
    /\ pc[t] = "s164"
    /\ IF IsErrorEvent(last_event)
          THEN Goto(t, "s165") /\ UNCHANGED event_lock
          ELSE Return(t, "True") /\ ReleaseEventLock
    /\ UNCHANGED <<subscriptions, event_available, last_event, regCount,
                   unregCount, serverRegs, nEvents, lpc, lres, invoked>>
    /\ UNCHANGED <<op, nCalls, decider, how, touched>>
    /\ UNCHANGED <<cvars, mvars, xvars>>

\* lines 165-166: del self._subscriptions[prop]; return False
S165(t) ==
    /\ pc[t] = "s165"
    /\ IF op[t].prop \in DOMAIN subscriptions
          THEN /\ subscriptions' = DictDel(subscriptions, op[t].prop)
               /\ Return(t, "False")
          ELSE /\ UNCHANGED subscriptions
               /\ Return(t, "KeyError")
    /\ ReleaseEventLock
    /\ UNCHANGED <<event_available, last_event, regCount,
                   unregCount, serverRegs, nEvents, lpc, lres, invoked>>
    /\ UNCHANGED <<op, nCalls, decider, how, touched>>
    /\ UNCHANGED <<cvars, mvars, xvars>>

\* a test that never finds the callback in the list
NeverSubscribed(cb, l) == FALSE

\* line 171, the operand of `not`: callback in self._subscriptions[prop]
AlreadySubscribed(cb, l) == InList(cb, l)

\* line 171: if not callback in self._subscriptions[prop]
S171(t) ==
    /\ pc[t] = "s171"
    /\ IF op[t].prop \notin DOMAIN subscriptions
          THEN Return(t, "KeyError")
          ELSE IF AlreadySubscribed(op[t].cb, subscriptions[op[t].prop])
                 THEN Return(t, "True")
                 ELSE Goto(t, "s172")
    /\ UNCHANGED evars
    /\ UNCHANGED <<op, nCalls, decider, how, touched>>
    /\ UNCHANGED <<cvars, mvars, xvars>>

\* a subscribe that reports success without keeping the callback
AppendCallbackLost(l, cb) == l

\* line 172: the list after .append(callback)
AppendCallback(l, cb) == Append(l, cb)

\* lines 172-173: self._subscriptions[prop].append(callback); return True
S172(t) ==
    /\ pc[t] = "s172"
    /\ IF op[t].prop \notin DOMAIN subscriptions
          THEN /\ Return(t, "KeyError")
               /\ UNCHANGED <<subscriptions, touched>>
          ELSE /\ subscriptions' =
                    [subscriptions EXCEPT
                       ![op[t].prop] = AppendCallback(@, op[t].cb)]
               /\ Registered(op[t].prop, op[t].cb)
               /\ Return(t, "True")
    /\ UNCHANGED <<event_lock, event_available, last_event, regCount,
                   unregCount, serverRegs, nEvents, lpc, lres, invoked>>
    /\ UNCHANGED <<op, nCalls, decider, how>>
    /\ UNCHANGED <<cvars, mvars, xvars>>

SubscribeStep(t) ==
    \/ S155(t) \/ S158(t) \/ S159(t) \/ S159Sent(t) \/ S162Wake(t)
    \/ S162Timeout(t) \/ S163(t) \/ S164(t) \/ S165(t) \/ S171(t) \/ S172(t)

\* ------------------------------------------------------------- unsubscribe
\* line 186, left operand: prop in self._subscriptions
UnsubscribeCall(t, p, cb) ==
    /\ StartCall(t, [kind |-> "unsubscribe", prop |-> p, cb |-> cb,
                     nowait |-> FALSE, first |-> FALSE,
                     blocking |-> FALSE, hascb |-> FALSE])
    /\ touched' = [touched EXCEPT
                     ![t] = /\ p \in DOMAIN subscriptions
                            /\ InList(cb, subscriptions[p])]
    /\ IF p \in DOMAIN subscriptions
          THEN Goto(t, "u186") ELSE Return(t, "False")
    /\ UNCHANGED evars
    /\ UNCHANGED <<cvars, mvars, xvars>>

\* line 186, right operand: callback in self._subscriptions[prop]
U186(t) ==
    /\ pc[t] = "u186"
    /\ IF op[t].prop \notin DOMAIN subscriptions
          THEN Return(t, "KeyError")
          ELSE IF InList(op[t].cb, subscriptions[op[t].prop])
                 THEN Goto(t, "u187")
                 ELSE Return(t, "False")
    /\ UNCHANGED evars
    /\ UNCHANGED <<op, nCalls, decider, how, touched>>
    /\ UNCHANGED <<cvars, mvars, xvars>>

\* line 187: self._subscriptions[prop].remove(callback)
U187(t) ==
    /\ pc[t] = "u187"
    /\ IF op[t].prop \notin DOMAIN subscriptions
          THEN Return(t, "KeyError") /\ UNCHANGED subscriptions
          ELSE IF ~InList(op[t].cb, subscriptions[op[t].prop])
                 THEN Return(t, "ValueError") /\ UNCHANGED subscriptions
                 ELSE /\ subscriptions' =
                           [subscriptions EXCEPT
                              ![op[t].prop] = ListRemove(@, op[t].cb)]
                      /\ Goto(t, "u190")
    /\ UNCHANGED <<event_lock, event_available, last_event, regCount,
                   unregCount, serverRegs, nEvents, lpc, lres, invoked>>
    /\ UNCHANGED <<op, nCalls, decider, how, touched>>
    /\ UNCHANGED <<cvars, mvars, xvars>>

\* line 190: if len(self._subscriptions[prop]) == 0; line 194 otherwise
U190(t) ==
    /\ pc[t] = "u190"
    /\ IF op[t].prop \notin DOMAIN subscriptions
          THEN Return(t, "KeyError")
          ELSE IF Len(subscriptions[op[t].prop]) = 0
                 THEN Goto(t, "u191")
                 ELSE Return(t, "True")
    /\ UNCHANGED evars
    /\ UNCHANGED <<op, nCalls, decider, how, touched>>
    /\ UNCHANGED <<cvars, mvars, xvars>>

\* line 191: with self._event_lock
U191(t) ==
    /\ pc[t] = "u191"
    /\ EventLockFree(t)
    /\ event_lock' = t
    /\ Goto(t, "u192")
    /\ UNCHANGED <<subscriptions, event_available, last_event, regCount,
                   unregCount, serverRegs, nEvents, lpc, lres, invoked>>
    /\ UNCHANGED <<op, nCalls, decider, how, touched>>
    /\ UNCHANGED <<cvars, mvars, xvars>>

\* line 192: self.event_sock.send(...) is entered; the first bytes of the
\* frame are on the stream
U192(t) ==
    /\ pc[t] = "u192"
    /\ Goto(t, "u192s")
    /\ UNCHANGED evars
    /\ UNCHANGED <<op, nCalls, decider, how, touched>>
    /\ UNCHANGED <<cvars, mvars, xvars>>

\* line 192: the UNREGISTER frame is written
U192Sent(t) ==
    /\ pc[t] = "u192s"
    /\ unregCount' = [unregCount EXCEPT ![op[t].prop] = @ + 1]
    /\ serverRegs' = serverRegs \ {op[t].prop}
    /\ Goto(t, "u193")
    /\ UNCHANGED <<subscriptions, event_lock, event_available, last_event,
                   regCount, nEvents, lpc, lres, invoked>>
    /\ UNCHANGED <<op, nCalls, decider, how, touched>>
    /\ UNCHANGED <<cvars, mvars, xvars>>

\* lines 193-194: del self._subscriptions[prop]; return True
U193(t) ==
    /\ pc[t] = "u193"
    /\ IF op[t].prop \in DOMAIN subscriptions
          THEN /\ subscriptions' = DictDel(subscriptions, op[t].prop)
               /\ Return(t, "True")
          ELSE /\ UNCHANGED subscriptions
               /\ Return(t, "KeyError")
    /\ ReleaseEventLock
    /\ UNCHANGED <<event_available, last_event, regCount,
                   unregCount, serverRegs, nEvents, lpc, lres, invoked>>
    /\ UNCHANGED <<op, nCalls, decider, how, touched>>
    /\ UNCHANGED <<cvars, mvars, xvars>>

UnsubscribeStep(t) ==
    \/ U186(t) \/ U187(t) \/ U190(t) \/ U191(t) \/ U192(t) \/ U192Sent(t)
    \/ U193(t)

\* --------------------------------------------------- _threaded_event_listener
\* what an event signalled now means to the subscribe call of thread t: the
\* first event of its property or of "error" after its REGISTER
Decides(t, ev) ==
    IF /\ pc[t] \in {"s162", "s163", "s164", "s165"}
       /\ decider[t] = "none"
       /\ ev.name \in {op[t].prop, ErrorName}
      THEN IF ev.name = op[t].prop THEN "prop"
           ELSE IF ev.body = NoError THEN "noerror" ELSE "error"
      ELSE decider[t]

\* lines 327-328: res = self._listen(self.event_sock); self._last_event = res.
\* The server sends events of the names it holds a registration for.
L327 ==
    /\ lpc = "l327"
    /\ nEvents < MaxEvents
    /\ \E ev \in Events :
          /\ ev.name \in serverRegs
          /\ lres' = ev
          /\ last_event' = ev
    /\ nEvents' = nEvents + 1
    /\ lpc' = "l329"
    /\ UNCHANGED <<subscriptions, event_lock, event_available,
                   regCount, unregCount, serverRegs, invoked>>
    /\ UNCHANGED tvars
    /\ UNCHANGED <<cvars, mvars, xvars>>

\* line 329: self._event_available.set()
L329 ==
    /\ lpc = "l329"
    /\ event_available' = TRUE
    /\ decider' = [t \in Threads |-> Decides(t, lres)]
    /\ lpc' = "l330"
    /\ UNCHANGED <<subscriptions, event_lock, last_event,
                   regCount, unregCount, serverRegs, nEvents, lres, invoked>>
    /\ UNCHANGED <<pc, op, ret, nCalls, how, touched>>
    /\ UNCHANGED <<cvars, mvars, xvars>>

\* line 330: if res.name in self._subscriptions.keys()
L330 ==
    /\ lpc = "l330"
    /\ lpc' = IF lres.name \in DOMAIN subscriptions THEN "l331" ELSE "l327"
    /\ UNCHANGED <<subscriptions, event_lock, event_available, last_event,
                   regCount, unregCount, serverRegs, nEvents, lres, invoked>>
    /\ UNCHANGED tvars
    /\ UNCHANGED <<cvars, mvars, xvars>>

\* how often callback c occurs in list l
Occurrences(l, c) == Cardinality({i \in 1..Len(l) : l[i] = c})

\* a listener that calls the callbacks itself and goes on when they return
AfterCall(l) == IF l = <<>> THEN "l327" ELSE "l332"

\* line 332: threading.Thread(target=sub, args=(res,)).start() returns once
\* the thread is started; after the last one the loop of line 326 goes on
AfterStart(l) == "l327"

\* lines 331-332: one thread per callback of self._subscriptions[res.name];
\* a KeyError ends the listener thread
L331 ==
    /\ lpc = "l331"
    /\ IF lres.name \in DOMAIN subscriptions
          THEN /\ invoked' =
                    [c \in DOMAIN invoked |->
                       invoked[c] + Occurrences(subscriptions[lres.name], c)]
               /\ running' =
                    [c \in AllCallbacks |->
                       running[c] + Occurrences(subscriptions[lres.name], c)]
               /\ lpc' = AfterStart(subscriptions[lres.name])
          ELSE /\ UNCHANGED <<invoked, running>>
               /\ lpc' = "dead"
    /\ UNCHANGED <<subscriptions, event_lock, event_available, last_event,
                   regCount, unregCount, serverRegs, nEvents, lres>>
    /\ UNCHANGED tvars
    /\ UNCHANGED <<cvars, mvars, pvars, raised>>

EventListener == L327 \/ L329 \/ L330 \/ L331

\* ------------------------------------------------ run, get, set, abort
\* a lock that excludes nobody
LockFreeNoExclusion(t) == TRUE

\* `with self._lock:` blocks until no other thread holds the lock
LockFree(t) == lock = "free"

\* a step of caller thread t at position l on the command side: it touches
\* neither the event side nor the reply listener
CmdStepOf(t, l) ==
    /\ pc[t] = l
    /\ UNCHANGED <<evars, op, nCalls, decider, how, touched, mvars, xvars>>
    /\ UNCHANGED <<nReplies, rpc, rres, cbInvoked>>

\* such a step that neither sends the command of a run nor ends a run
CmdStep(t, l) ==
    /\ CmdStepOf(t, l)
    /\ UNCHANGED <<rtext, seen>>

\* a call on the command side starts
CmdCall(t, kind, blocking, hascb, l) ==
    /\ nCalls < MaxCmdCalls
    /\ StartCall(t, [kind |-> kind, prop |-> "none", cb |-> "none",
                     nowait |-> FALSE, first |-> FALSE,
                     blocking |-> blocking, hascb |-> hascb])
    /\ Goto(t, l)
    /\ UNCHANGED <<evars, touched, cvars, mvars, xvars>>

\* line 342: self.sock.send(header + body); np.uint32(sn) is sn for the
\* serial numbers of a bounded behaviour
SendData(event, sn) ==
    cmd_wire' = Append(cmd_wire, [cmd |-> event, sn |-> sn])

\* lines 214, 242, 269, 337: with self._lock
AcquireLock(t, next) ==
    /\ LockFree(t)
    /\ lock' = t
    /\ Goto(t, next)
    /\ UNCHANGED <<sn_counter, reply_events, reply_data, screen_print,
                   cmd_wire, tsn>>

\* lines 215, 243, 270, 340: self._sn_counter += 1
NextSn(t, next) ==
    /\ sn_counter' = sn_counter + 1
    /\ Goto(t, next)
    /\ UNCHANGED <<lock, reply_events, reply_data, screen_print,
                   cmd_wire, tsn>>

\* lines 216, 244, 271, 341: sn = self._sn_counter
ReadSn(t, next) ==
    /\ tsn' = [tsn EXCEPT ![t] = sn_counter]
    /\ Goto(t, next)
    /\ UNCHANGED <<lock, sn_counter, reply_events, reply_data, screen_print,
                   cmd_wire>>

\* a call that sends without noting what it waits for
RegisterNothing(t, next, v) ==
    /\ Goto(t, next)
    /\ UNCHANGED <<lock, sn_counter, reply_events, reply_data, screen_print,
                   cmd_wire, tsn>>

\* lines 218, 220, 245, 272: self._reply_events[sn] = v
Register(t, next, v) ==
    /\ reply_events' = IF v = "nothing" THEN reply_events
                       ELSE DictSet(reply_events, tsn[t], v)
    /\ Goto(t, next)
    /\ UNCHANGED <<lock, sn_counter, reply_data, screen_print, cmd_wire, tsn>>

\* line 342: self.sock.send(...) is entered; the first bytes of the frame
\* are on the stream
BeginSend(t, next) ==
    /\ Goto(t, next)
    /\ UNCHANGED <<lock, sn_counter, reply_events, reply_data, screen_print,
                   cmd_wire, tsn>>

\* line 209
FuncEvent(blocking, hascb) ==
    IF blocking \/ hascb THEN "FUNC_WITH_RETURN" ELSE "FUNC"

\* run(command), run(command, blocking=False, callback=f) and
\* run(command, blocking=False)
RunModes == {[blocking |-> TRUE, hascb |-> FALSE],
             [blocking |-> FALSE, hascb |-> TRUE],
             [blocking |-> FALSE, hascb |-> FALSE]}

RunCall(t, blocking, hascb) ==
    /\ pc[t] = "idle"
    /\ CmdCall(t, "run", blocking, hascb, "r214")

R214(t) == CmdStep(t, "r214") /\ AcquireLock(t, "r215")

R215(t) == CmdStep(t, "r215") /\ NextSn(t, "r216")

R216(t) == CmdStep(t, "r216") /\ ReadSn(t, "r217")

\* lines 217-220
R217(t) ==
    /\ CmdStep(t, "r217")
    /\ Register(t, "r222",
                IF op[t].blocking THEN "unset"
                ELSE IF op[t].hascb THEN "callback" ELSE "nothing")

\* line 222: self._screen_print = ""
R222(t) ==
    /\ CmdStep(t, "r222")
    /\ screen_print' = <<>>
    /\ Goto(t, "r223")
    /\ UNCHANGED <<lock, sn_counter, reply_events, reply_data, cmd_wire, tsn>>

\* line 223: self._send_data(...) up to the start of sock.send
R223(t) == CmdStep(t, "r223") /\ BeginSend(t, "r223s")

\* line 223: the frame is written; the end of the with block, and the end
\* of the call when it does not block
R223Sent(t) ==
    /\ CmdStepOf(t, "r223s")
    /\ seen' = [seen EXCEPT ![t] = [open |-> op[t].blocking, text |-> <<>>]]
    /\ UNCHANGED rtext
    /\ SendData(FuncEvent(op[t].blocking, op[t].hascb), tsn[t])
    /\ lock' = "free"
    /\ IF op[t].blocking THEN Goto(t, "r226") ELSE Return(t, "None")
    /\ UNCHANGED <<sn_counter, reply_events, reply_data, screen_print, tsn>>

\* line 226: self._reply_events[sn].wait()
R226(t) ==
    /\ CmdStep(t, "r226")
    /\ IF tsn[t] \notin DOMAIN reply_events
          THEN Return(t, "KeyError")
          ELSE /\ reply_events[tsn[t]] = "set"
               /\ Goto(t, "r227")
    /\ UNCHANGED <<lock, sn_counter, reply_events, reply_data, screen_print,
                   cmd_wire, tsn>>

\* line 227: del self._reply_events[sn]
R227(t) ==
    /\ CmdStep(t, "r227")
    /\ IF tsn[t] \in DOMAIN reply_events
          THEN /\ reply_events' = DictDel(reply_events, tsn[t])
               /\ Goto(t, "r228")
          ELSE /\ UNCHANGED reply_events
               /\ Return(t, "KeyError")
    /\ UNCHANGED <<lock, sn_counter, reply_data, screen_print, cmd_wire, tsn>>

\* lines 228-230: data = ...self._reply_data[sn]; del self._reply_data[sn];
\* return data, self._screen_print
R228(t) ==
    /\ CmdStepOf(t, "r228")
    /\ rtext' = [rtext EXCEPT ![t] = screen_print]
    /\ UNCHANGED seen
    /\ IF tsn[t] \in DOMAIN reply_data
          THEN /\ reply_data' = DictDel(reply_data, tsn[t])
               /\ Return(t, reply_data[tsn[t]].type)
          ELSE /\ UNCHANGED reply_data
               /\ Return(t, "KeyError")
    /\ UNCHANGED <<lock, sn_counter, reply_events, screen_print, cmd_wire, tsn>>

RunStep(t) ==
    \/ R214(t) \/ R215(t) \/ R216(t) \/ R217(t) \/ R222(t) \/ R223(t)
    \/ R223Sent(t)
    \/ R226(t) \/ R227(t) \/ R228(t)

GetCall(t) ==
    /\ pc[t] = "idle"
    /\ CmdCall(t, "get", TRUE, FALSE, "g242")

G242(t) == CmdStep(t, "g242") /\ AcquireLock(t, "g243")

G243(t) == CmdStep(t, "g243") /\ NextSn(t, "g244")

G244(t) == CmdStep(t, "g244") /\ ReadSn(t, "g245")

G245(t) == CmdStep(t, "g245") /\ Register(t, "g246", "unset")

\* line 246: self._send_data(...) up to the start of sock.send
G246(t) == CmdStep(t, "g246") /\ BeginSend(t, "g246s")

\* line 246: self._send_data(EventTypes.SV_CHAN_READ, 0, prop, sn=sn) has
\* written the frame
G246Sent(t) ==
    /\ CmdStep(t, "g246s")
    /\ SendData("CHAN_READ", tsn[t])
    /\ Goto(t, "g247")
    /\ UNCHANGED <<lock, sn_counter, reply_events, reply_data, screen_print,
                   tsn>>

\* line 247: self._reply_events[sn].wait(), inside the with block
G247(t) ==
    /\ CmdStep(t, "g247")
    /\ IF tsn[t] \notin DOMAIN reply_events
          THEN Return(t, "KeyError") /\ lock' = "free"
          ELSE /\ reply_events[tsn[t]] = "set"
               /\ Goto(t, "g248")
               /\ UNCHANGED lock
    /\ UNCHANGED <<sn_counter, reply_events, reply_data, screen_print,
                   cmd_wire, tsn>>

\* lines 248-252: data = self._reply_data[sn]; del self._reply_data[sn];
\* return None for an ERROR frame, data otherwise
G248(t) ==
    /\ CmdStep(t, "g248")
    /\ IF tsn[t] \in DOMAIN reply_data
          THEN /\ reply_data' = DictDel(reply_data, tsn[t])
               /\ Return(t, IF reply_data[tsn[t]].type = "ERROR"
                              THEN "None" ELSE reply_data[tsn[t]].type)
          ELSE /\ UNCHANGED reply_data
               /\ Return(t, "KeyError")
    /\ lock' = "free"
    /\ UNCHANGED <<sn_counter, reply_events, screen_print, cmd_wire, tsn>>

GetStep(t) ==
    \/ G242(t) \/ G243(t) \/ G244(t) \/ G245(t) \/ G246(t) \/ G246Sent(t)
    \/ G247(t)
    \/ G248(t)

SetCall(t) ==
    /\ pc[t] = "idle"
    /\ CmdCall(t, "set", TRUE, FALSE, "set269")

Set269(t) == CmdStep(t, "set269") /\ AcquireLock(t, "set270")

Set270(t) == CmdStep(t, "set270") /\ NextSn(t, "set271")

Set271(t) == CmdStep(t, "set271") /\ ReadSn(t, "set272")

Set272(t) == CmdStep(t, "set272") /\ Register(t, "set273", "unset")

\* line 273: self._send_data(...) up to the start of sock.send
Set273(t) == CmdStep(t, "set273") /\ BeginSend(t, "set273s")

\* line 273: self._send_data(EventTypes.SV_CHAN_SEND, dtype, prop, sn=sn, ...)
\* has written the frame
Set273Sent(t) ==
    /\ CmdStep(t, "set273s")
    /\ SendData("CHAN_SEND", tsn[t])
    /\ Goto(t, "set274")
    /\ UNCHANGED <<lock, sn_counter, reply_events, reply_data, screen_print,
                   tsn>>

\* line 274: self._reply_events[sn].wait(timeout=wait_for_error) finds the
\* flag set
Set274Wake(t) ==
    /\ CmdStep(t, "set274")
    /\ IF tsn[t] \notin DOMAIN reply_events
          THEN Return(t, "KeyError") /\ lock' = "free"
          ELSE /\ reply_events[tsn[t]] = "set"
               /\ Goto(t, "set275")
               /\ UNCHANGED lock
    /\ UNCHANGED <<sn_counter, reply_events, reply_data, screen_print,
                   cmd_wire, tsn>>

\* lines 274, 279: the wait times out with the flag clear; return True
Set274Timeout(t) ==
    /\ CmdStep(t, "set274")
    /\ tsn[t] \in DOMAIN reply_events
    /\ reply_events[tsn[t]] = "unset"
    /\ Return(t, "True")
    /\ lock' = "free"
    /\ UNCHANGED <<sn_counter, reply_events, reply_data, screen_print,
                   cmd_wire, tsn>>

\* a set that takes an error reply for success
SetResultIgnoresError(ty) == "True"

\* lines 277-279: return False for an ERROR frame, True otherwise
SetResult(ty) == IF ty = "ERROR" THEN "False" ELSE "True"

\* lines 275-279: data = self._reply_data[sn]; del self._reply_data[sn];
\* return False for an ERROR frame, True otherwise
Set275(t) ==
    /\ CmdStep(t, "set275")
    /\ IF tsn[t] \in DOMAIN reply_data
          THEN /\ reply_data' = DictDel(reply_data, tsn[t])
               /\ Return(t, SetResult(reply_data[tsn[t]].type))
          ELSE /\ UNCHANGED reply_data
               /\ Return(t, "KeyError")
    /\ lock' = "free"
    /\ UNCHANGED <<sn_counter, reply_events, screen_print, cmd_wire, tsn>>

SetStep(t) ==
    \/ Set269(t) \/ Set270(t) \/ Set271(t) \/ Set272(t) \/ Set273(t)
    \/ Set273Sent(t)
    \/ Set274Wake(t) \/ Set274Timeout(t) \/ Set275(t)

\* line 418: self._send_data(EventTypes.SV_ABORT, 0, "")
AbortCall(t) ==
    /\ pc[t] = "idle"
    /\ CmdCall(t, "abort", FALSE, FALSE, "a337")

A337(t) == CmdStep(t, "a337") /\ AcquireLock(t, "a340")

A340(t) == CmdStep(t, "a340") /\ NextSn(t, "a341")

A341(t) == CmdStep(t, "a341") /\ ReadSn(t, "a342")

\* line 342: sock.send is entered
A342(t) == CmdStep(t, "a342") /\ BeginSend(t, "a342s")

\* lines 342-343: the frame is written; the end of the with block
A342Sent(t) ==
    /\ CmdStep(t, "a342s")
    /\ SendData("ABORT", tsn[t])
    /\ lock' = "free"
    /\ Return(t, "None")
    /\ UNCHANGED <<sn_counter, reply_events, reply_data, screen_print, tsn>>

AbortStep(t) ==
    A337(t) \/ A340(t) \/ A341(t) \/ A342(t) \/ A342Sent(t)

\* --------------------------------------------------- _threaded_reply_listener
\* s[:-3]
AllButLast3(s) == SubSeq(s, 1, Len(s) - 3)

\* positions of the newlines of s
Newlines(s) == {i \in 1..Len(s) : s[i] = "\n"}

\* "\n".join(s.split("\n")[:-2]): s up to its last but one newline
DropLastTwoLines(s) ==
    IF Cardinality(Newlines(s)) < 2 THEN <<>>
    ELSE LET last == CHOOSE i \in Newlines(s) :
                         \A j \in Newlines(s) : j <= i
             cut == CHOOSE i \in Newlines(s) \ {last} :
                         \A j \in Newlines(s) \ {last} : j <= i
         IN SubSeq(s, 1, cut - 1)

\* line 27
MAX_SCREEN_PRINT_LEN == 10000

\* a cut that keeps the oldest characters
FirstChars(s) ==
    IF Len(s) > MAX_SCREEN_PRINT_LEN
      THEN SubSeq(s, 1, MAX_SCREEN_PRINT_LEN) ELSE s

\* s[-MAX_SCREEN_PRINT_LEN:]
LastChars(s) ==
    IF Len(s) > MAX_SCREEN_PRINT_LEN
      THEN SubSeq(s, Len(s) - MAX_SCREEN_PRINT_LEN + 1, Len(s)) ELSE s

\* lines 313-317: self._screen_print after an output frame with this body
AfterOutput(sp, body) ==
    LET joined == sp \o body
        stripped == IF AllButLast3(joined) = <<">", " ", "\n">>
                      THEN DropLastTwoLines(joined) ELSE joined
    IN LastChars(stripped)

OutputBodies == {<<"a">>}

\* serial numbers the server has seen on the command socket
WireSns == {cmd_wire[i].sn : i \in 1..Len(cmd_wire)}

RlUnchanged ==
    /\ UNCHANGED <<evars, tvars, mvars, pvars>>
    /\ UNCHANGED <<lock, sn_counter, cmd_wire, tsn, rtext>>

\* lines 311-317: res = self._listen(self.sock) is a frame of "output/tty"
\* with this body and serial number
RlOutput(body, sn) ==
    /\ rpc = "r311"
    /\ nReplies < MaxReplies
    /\ nReplies' = nReplies + 1
    /\ rres' = [name |-> OutputName, sn |-> sn, type |-> "STRING",
                body |-> body]
    /\ screen_print' = AfterOutput(screen_print, body)
    /\ seen' = [t \in Threads |->
                  IF seen[t].open
                    THEN [seen[t] EXCEPT !.text = @ \o body]
                    ELSE seen[t]]
    /\ rpc' = "r311"
    /\ RlUnchanged
    /\ UNCHANGED dvars
    /\ UNCHANGED <<reply_events, reply_data, cbInvoked>>

Rl311Output == \E body \in OutputBodies : RlOutput(body, 0)

\* lines 311-318: res is a frame with the serial number of a frame the
\* server has received; elif res.sn in self._reply_events.keys()
Rl311Reply ==
    /\ rpc = "r311"
    /\ nReplies < MaxReplies
    /\ nReplies' = nReplies + 1
    /\ \E sn \in WireSns, ty \in ReplyTypes :
          /\ rres' = [name |-> "", sn |-> sn, type |-> ty, body |-> <<>>]
          /\ rpc' = IF sn \in DOMAIN reply_events THEN "r319" ELSE "r311"
          /\ seen' = [t \in Threads |->
                        IF tsn[t] = sn
                          THEN [seen[t] EXCEPT !.open = FALSE]
                          ELSE seen[t]]
    /\ RlUnchanged
    /\ UNCHANGED dvars
    /\ UNCHANGED <<reply_events, reply_data, screen_print, cbInvoked>>

\* lines 319, 323: the entry is an Event, or a callback to start a thread
\* with; a KeyError ends the listener thread
Rl319 ==
    /\ rpc = "r319"
    /\ IF rres.sn \notin DOMAIN reply_events
          THEN rpc' = "dead" /\ UNCHANGED <<cbInvoked, running>>
          ELSE IF reply_events[rres.sn] = "callback"
                 THEN /\ cbInvoked' =
                           DictSet(cbInvoked, rres.sn,
                                   IF rres.sn \in DOMAIN cbInvoked
                                     THEN cbInvoked[rres.sn] + 1 ELSE 1)
                      /\ running' = [running EXCEPT ![OneShot] = @ + 1]
                      /\ rpc' = "r311"
                 ELSE rpc' = "r320" /\ UNCHANGED <<cbInvoked, running>>
    /\ RlUnchanged
    /\ UNCHANGED <<seen, raised>>
    /\ UNCHANGED <<reply_events, reply_data, screen_print, nReplies, rres>>

\* line 320: self._reply_data[res.sn] = res
Rl320 ==
    /\ rpc = "r320"
    /\ reply_data' = DictSet(reply_data, rres.sn, rres)
    /\ rpc' = "r321"
    /\ RlUnchanged
    /\ UNCHANGED dvars
    /\ UNCHANGED seen
    /\ UNCHANGED <<reply_events, screen_print, nReplies, rres, cbInvoked>>

\* line 321: self._reply_events[res.sn].set()
Rl321 ==
    /\ rpc = "r321"
    /\ IF rres.sn \in DOMAIN reply_events
          THEN /\ reply_events' = [reply_events EXCEPT ![rres.sn] = "set"]
               /\ rpc' = "r311"
          ELSE /\ UNCHANGED reply_events
               /\ rpc' = "dead"
    /\ RlUnchanged
    /\ UNCHANGED dvars
    /\ UNCHANGED seen
    /\ UNCHANGED <<reply_data, screen_print, nReplies, rres, cbInvoked>>

\* line 311: self._listen(self.sock) raises: the connection is lost (recv
\* returns no bytes and struct.unpack fails, lines 117-118) or the frame is
\* malformed (line 120); nothing catches the exception and the listener
\* thread ends
Rl311Fail ==
    /\ rpc = "r311"
    /\ rpc' = "failed"
    /\ RlUnchanged
    /\ UNCHANGED dvars
    /\ UNCHANGED <<reply_events, reply_data, screen_print, nReplies, rres,
                   cbInvoked, seen>>

ReplyListener ==
    Rl311Output \/ Rl311Reply \/ Rl311Fail \/ Rl319 \/ Rl320 \/ Rl321

\* ------------------------------------------------------------ Motor.moveto
\* A step of the motor, of its server or of its callback threads.  The
\* client is seen through conn.run and conn.get only: a call and the answer
\* of the server to it; the tables of the client do not change.
MotorStep == UNCHANGED <<evars, tvars, cvars, xvars>>

\* Client.py lines 327-332 for events of the motor: the listener reads them
\* in order and starts one thread per event with set_and_notify as target
StartCallbacks(bodies) ==
    /\ cbs' = cbs \cup {[id |-> nMotorEvents + i, body |-> bodies[i],
                         stage |-> "set"] : i \in 1..Len(bodies)}
    /\ nMotorEvents' = nMotorEvents + Len(bodies)

\* the error codes the server gives a command
ErrCodes == {0, 1}

\* The server takes the move command.  It refuses it with a nonzero error
\* code, or starts the motor and reports move_done busy.
SrvTakes ==
    /\ cmd_state = "sent"
    /\ cmd_state' = "taken"
    /\ \E err \in ErrCodes :
          /\ cmd_err' = err
          /\ IF err = 0
                THEN /\ srv_move' = "moving"
                     /\ StartCallbacks(<<Busy>>)
                ELSE UNCHANGED <<srv_move, cbs, nMotorEvents>>
    /\ UNCHANGED <<move_done_attr, cond_lock, cond_waiters, mpc, mop, mret,
                   mres, fresh, nMoves, cbCalls>>
    /\ MotorStep

\* The motor arrives: the server reports the position and move_done idle.
SrvFinish ==
    /\ srv_move = "moving"
    /\ srv_move' = "done"
    /\ \E pos \in PositionBodies : StartCallbacks(<<pos, Idle>>)
    /\ UNCHANGED <<move_done_attr, cond_lock, cond_waiters, mpc, mop, mret,
                   mres, fresh, cmd_state, cmd_err, nMoves, cbCalls>>
    /\ MotorStep

\* Motor.py line 79: setattr(self, "_"+prop, res.body), where prop is
\* "move_done" in each of the three closures
CbSet ==
    \E c \in cbs :
        /\ c.stage = "set"
        /\ move_done_attr' = c.body
        /\ cbs' = (cbs \ {c}) \cup {[c EXCEPT !.stage = "notify"]}
        /\ UNCHANGED <<cond_lock, cond_waiters, mpc, mop, mret, mres, fresh,
                       cmd_state, cmd_err, srv_move, nMotorEvents, nMoves,
                       cbCalls>>
        /\ MotorStep

\* Motor.py lines 80-81: with the condition: notify_all(); the thread ends
CbNotify ==
    \E c \in cbs :
        /\ c.stage = "notify"
        /\ cond_lock = "free"
        /\ cond_waiters' = {}
        /\ cbs' = cbs \ {c}
        /\ UNCHANGED <<move_done_attr, cond_lock, mpc, mop, mret, mres, fresh,
                       cmd_state, cmd_err, srv_move, nMotorEvents, nMoves,
                       cbCalls>>
        /\ MotorStep

MGoto(th, l) == mpc' = [mpc EXCEPT ![th] = l]

\* moveto(value, blocking, callback) is called
MovetoCall(blocking, hascb) ==
    /\ mpc["main"] = "idle"
    /\ mpc["bg"] = "idle"
    /\ cmd_state # "sent"
    /\ nMoves < MaxMoves
    /\ nMoves' = nMoves + 1
    /\ mop' = [blocking |-> blocking, hascb |-> hascb]
    /\ mret' = "none"
    /\ mres' = NoRes
    /\ MGoto("main", "m137")
    /\ UNCHANGED <<move_done_attr, cond_lock, cond_waiters, fresh, cmd_state,
                   cmd_err, srv_move, cbs, nMotorEvents, cbCalls>>
    /\ MotorStep

\* Motor.py line 137: self.conn.run(command, blocking=blocking) sends the
\* command; without blocking it returns None at once (Client.py lines
\* 223-225), as run is given no callback
M137 ==
    /\ mpc["main"] = "m137"
    /\ cmd_state' = "sent"
    /\ MGoto("main", IF mop.blocking THEN "m137w" ELSE "m138")
    /\ UNCHANGED <<move_done_attr, cond_lock, cond_waiters, mop, mret, mres,
                   fresh, cmd_err, srv_move, cbs, nMotorEvents, nMoves,
                   cbCalls>>
    /\ MotorStep

\* Motor.py line 137: the blocking run returns the reply of the command
M137Reply ==
    /\ mpc["main"] = "m137w"
    /\ cmd_state = "taken"
    /\ mres' = [isNone |-> FALSE, err |-> cmd_err]
    /\ MGoto("main", "m138")
    /\ UNCHANGED <<move_done_attr, cond_lock, cond_waiters, mop, mret, fresh,
                   cmd_state, cmd_err, srv_move, cbs, nMotorEvents, nMoves,
                   cbCalls>>
    /\ MotorStep

\* Motor.py lines 138-142 and 149-157: raise for a reply with an error code;
\* otherwise go on to wait, or start the thread of wait_for_finish and
\* return, or return
M138 ==
    /\ mpc["main"] = "m138"
    /\ IF ~mres.isNone /\ mres.err # 0
          THEN /\ mret' = "Exception"
               /\ MGoto("main", "idle")
          ELSE IF mop.blocking
                 THEN /\ MGoto("main", "m143")
                      /\ UNCHANGED mret
                 ELSE /\ mret' = "ok"
                      /\ mpc' = [mpc EXCEPT
                                   !["main"] = "idle",
                                   !["bg"] = IF mop.hascb THEN "m143"
                                             ELSE "idle"]
    /\ UNCHANGED <<move_done_attr, cond_lock, cond_waiters, mop, mres, fresh,
                   cmd_state, cmd_err, srv_move, cbs, nMotorEvents, nMoves,
                   cbCalls>>
    /\ MotorStep

\* a step of thread th in one of the two waiting loops
WaitStep(th, l) ==
    /\ mpc[th] = l
    /\ UNCHANGED <<mop, mres, cmd_state, cmd_err, srv_move, cbs,
                   nMotorEvents, nMoves>>
    /\ MotorStep

\* Motor.py lines 143, 151: self.get("move_done") returns the value the
\* server holds.  The request follows the move command on the command
\* socket, and the server answers it after it has taken the command.
M143(th) ==
    /\ WaitStep(th, "m143")
    /\ cmd_state # "sent"
    /\ fresh' = [fresh EXCEPT ![th] = IF srv_move = "moving" THEN Busy
                                      ELSE Idle]
    /\ MGoto(th, "m143s")
    /\ UNCHANGED <<move_done_attr, cond_lock, cond_waiters, mret, cbCalls>>

\* Motor.py lines 143, 151: self._move_done = <the body of that reply>
M143Set(th) ==
    /\ WaitStep(th, "m143s")
    /\ move_done_attr' = fresh[th]
    /\ MGoto(th, "m145")
    /\ UNCHANGED <<cond_lock, cond_waiters, mret, fresh, cbCalls>>

\* Motor.py lines 145, 153: with the condition of move_done
M145(th) ==
    /\ WaitStep(th, "m145")
    /\ cond_lock = "free"
    /\ cond_lock' = th
    /\ MGoto(th, "m146")
    /\ UNCHANGED <<move_done_attr, cond_waiters, mret, fresh, cbCalls>>

\* Motor.py lines 146-147, 154-155: while not self.move_done: wait().  With
\* move_done true the with block ends and moveto returns, or wait_for_finish
\* goes on to its callback; otherwise wait() releases the lock.
M146(th) ==
    /\ WaitStep(th, "m146")
    /\ cond_lock' = "free"
    /\ IF MoveDone(move_done_attr)
          THEN /\ MGoto(th, IF th = "main" THEN "idle" ELSE "m156")
               /\ mret' = IF th = "main" THEN "ok" ELSE mret
               /\ UNCHANGED cond_waiters
          ELSE /\ MGoto(th, "m147")
               /\ cond_waiters' = cond_waiters \cup {th}
               /\ UNCHANGED mret
    /\ UNCHANGED <<move_done_attr, fresh, cbCalls>>

\* Motor.py lines 147, 155: wait() returns after a notify, with the lock
M147(th) ==
    /\ WaitStep(th, "m147")
    /\ th \notin cond_waiters
    /\ cond_lock = "free"
    /\ cond_lock' = th
    /\ MGoto(th, "m146")
    /\ UNCHANGED <<move_done_attr, cond_waiters, mret, fresh, cbCalls>>

\* Motor.py line 156: callback()
M156 ==
    /\ WaitStep("bg", "m156")
    /\ cbCalls' = cbCalls + 1
    /\ MGoto("bg", "idle")
    /\ UNCHANGED <<move_done_attr, cond_lock, cond_waiters, mret, fresh>>

MovetoStep ==
    \/ M137 \/ M137Reply \/ M138 \/ M156
    \/ \E th \in MotorThreads :
          M143(th) \/ M143Set(th) \/ M145(th) \/ M146(th) \/ M147(th)

\* moveto(value), moveto(value, blocking=False, callback=f) and
\* moveto(value, blocking=False)
MovetoModes == RunModes

\* ------------------------------------------------------------ specifications
\* The caller threads subscribe to "p" and unsubscribe from it, each with its
\* own callback, while the listener reads events.
Next ==
    \/ \E t \in Threads, nw \in BOOLEAN : SubscribeCall(t, "p", CbOf(t), nw)
    \/ \E t \in Threads : UnsubscribeCall(t, "p", CbOf(t))
    \/ \E t \in Threads : SubscribeStep(t)
    \/ \E t \in Threads : UnsubscribeStep(t)
    \/ EventListener

Spec == Init /\ [][Next]_vars

\* The caller threads subscribe, each with its own callback, to any property.
NextSubscribe ==
    \/ \E t \in Threads, p \in Props, nw \in BOOLEAN :
          SubscribeCall(t, p, CbOf(t), nw)
    \/ \E t \in Threads : SubscribeStep(t)
    \/ EventListener

SpecSubscribe == Init /\ [][NextSubscribe]_vars

\* The caller threads run commands, get and set properties and abort, while
\* the reply listener reads the command socket.
NextCall ==
    \/ \E t \in Threads, m \in RunModes : RunCall(t, m.blocking, m.hascb)
    \/ \E t \in Threads : GetCall(t)
    \/ \E t \in Threads : SetCall(t)
    \/ \E t \in Threads : AbortCall(t)
    \/ \E t \in Threads : RunStep(t)
    \/ \E t \in Threads : GetStep(t)
    \/ \E t \in Threads : SetStep(t)
    \/ \E t \in Threads : AbortStep(t)
    \/ ReplyListener

SpecCall == Init /\ [][NextCall]_vars

\* Each thread subscribes its own callback to "p", once.
SubscribeOnce(t, nw) ==
    /\ ret[t] = "none"
    /\ SubscribeCall(t, "p", CbOf(t), nw)

NextSubscribeN ==
    \/ \E t \in Threads, nw \in BOOLEAN : SubscribeOnce(t, nw)
    \/ \E t \in Threads : SubscribeStep(t)
    \/ EventListener

SpecSubscribeN == Init /\ [][NextSubscribeN]_vars

\* The client after subscribe("p", cb, nowait=True) for every callback:
\* one REGISTER for "p" is on the wire and all callbacks are in its list.
InitRegistered ==
    /\ subscriptions = [n \in {ErrorName, "p"} |->
                          IF n = "p" THEN <<"cb1", "cb2">>
                          ELSE <<ErrCallback>>]
    /\ event_lock = "free"
    /\ event_available = FALSE
    /\ last_event = None
    /\ regCount = [n \in Names |-> IF n \in {ErrorName, "p"} THEN 1 ELSE 0]
    /\ unregCount = [n \in Names |-> 0]
    /\ serverRegs = {ErrorName, "p"}
    /\ nEvents = 0
    /\ lpc = "l327"
    /\ lres = None
    /\ invoked = [c \in Callbacks \cup {ErrCallback} |-> 0]
    /\ pc = [t \in Threads |-> "idle"]
    /\ op = [t \in Threads |-> NoOp]
    /\ ret = [t \in Threads |-> "none"]
    /\ nCalls = 0
    /\ decider = [t \in Threads |-> "none"]
    /\ how = [t \in Threads |-> "none"]
    /\ touched = [t \in Threads |-> FALSE]
    /\ lock = "free"
    /\ sn_counter = 0
    /\ reply_events = EmptyDict
    /\ reply_data = EmptyDict
    /\ screen_print = <<>>
    /\ cmd_wire = <<>>
    /\ nReplies = 0
    /\ rpc = "r311"
    /\ rres = NoFrame
    /\ cbInvoked = EmptyDict
    /\ tsn = [t \in Threads |-> 0]
    /\ rtext = [t \in Threads |-> <<>>]
    /\ seen = [t \in Threads |-> NoOutput]
    /\ MotorInit
    /\ DispatchInit
    /\ CodecIdle

\* Each thread unsubscribes its own callback from "p", once.
UnsubscribeOnce(t) ==
    /\ ret[t] = "none"
    /\ UnsubscribeCall(t, "p", CbOf(t))

NextUnsubscribeN ==
    \/ \E t \in Threads : UnsubscribeOnce(t)
    \/ \E t \in Threads : UnsubscribeStep(t)
    \/ EventListener

SpecUnsubscribeN == InitRegistered /\ [][NextUnsubscribeN]_vars

\* The caller threads send on both sockets: subscribe with nowait and
\* unsubscribe on the event socket; run without waiting, set and abort on
\* the command socket.  No listener runs, so a set call times out.
NextSend ==
    \/ \E t \in Threads : SubscribeCall(t, "p", CbOf(t), TRUE)
    \/ \E t \in Threads : UnsubscribeCall(t, "p", CbOf(t))
    \/ \E t \in Threads : S155(t) \/ S158(t) \/ S159(t) \/ S159Sent(t)
    \/ \E t \in Threads : S171(t) \/ S172(t)
    \/ \E t \in Threads : UnsubscribeStep(t)
    \/ \E t \in Threads : RunCall(t, FALSE, FALSE)
    \/ \E t \in Threads : R214(t) \/ R215(t) \/ R216(t) \/ R217(t)
    \/ \E t \in Threads : R222(t) \/ R223(t) \/ R223Sent(t)
    \/ \E t \in Threads : SetCall(t)
    \/ \E t \in Threads : Set269(t) \/ Set270(t) \/ Set271(t) \/ Set272(t)
    \/ \E t \in Threads : Set273(t) \/ Set273Sent(t) \/ Set274Timeout(t)
    \/ \E t \in Threads : AbortCall(t)
    \/ \E t \in Threads : AbortStep(t)

SpecSend == Init /\ [][NextSend]_vars

\* SpecCall with the scheduling of the threads: a caller thread that can
\* take a step takes one, and so does the reply listener once it has read a
\* frame.  Whether the server sends a frame at all is left open.
CallerStep(t) == RunStep(t) \/ GetStep(t) \/ SetStep(t) \/ AbortStep(t)

SpecCallFair ==
    /\ SpecCall
    /\ \A t \in Threads : WF_vars(CallerStep(t))
    /\ WF_vars(Rl319 \/ Rl320 \/ Rl321)

\* One thread moves the motor with moveto; the server takes the command and
\* reports the motor's state; the callback threads store what it reports.
NextMotor ==
    \/ \E m \in MovetoModes : MovetoCall(m.blocking, m.hascb)
    \/ MovetoStep
    \/ SrvTakes
    \/ SrvFinish
    \/ CbSet
    \/ CbNotify

SpecMotor == Init /\ [][NextMotor]_vars

\* SpecMotor with the scheduling: the threads of the client run when they
\* can, and the server takes a command it was sent and finishes a move it
\* has started.
SpecMotorFair ==
    /\ SpecMotor
    /\ WF_vars(MovetoStep)
    /\ WF_vars(CbSet)
    /\ WF_vars(CbNotify)
    /\ WF_vars(SrvTakes)
    /\ WF_vars(SrvFinish)

\* how the thread of a callback ends, if it ends
Endings == {"returns", "raises"}

\* A thread started for callback c ends: the callback returns, or it raises
\* and the exception ends its thread (lines 323, 332: the listeners neither
\* join the threads they start nor look at them again).  A callback that
\* never returns takes no step.
CbEnds(c, e) ==
    /\ running[c] > 0
    /\ running' = [running EXCEPT ![c] = @ - 1]
    /\ raised' = IF e = "raises" THEN raised \cup {c} ELSE raised
    /\ UNCHANGED <<evars, tvars, cvars, mvars, pvars>>

\* The client after subscribe("p", cb, nowait=True) for both callbacks and
\* after thread t1 has called run(command, blocking=False, callback=f): the
\* frame of the command is on the wire and f is registered for its serial
\* number.
InitDispatch ==
    /\ subscriptions = [n \in {ErrorName, "p"} |->
                          IF n = "p" THEN <<"cb1", "cb2">>
                          ELSE <<ErrCallback>>]
    /\ event_lock = "free"
    /\ event_available = FALSE
    /\ last_event = None
    /\ regCount = [n \in Names |-> IF n \in {ErrorName, "p"} THEN 1 ELSE 0]
    /\ unregCount = [n \in Names |-> 0]
    /\ serverRegs = {ErrorName, "p"}
    /\ nEvents = 0
    /\ lpc = "l327"
    /\ lres = None
    /\ invoked = [c \in Callbacks \cup {ErrCallback} |-> 0]
    /\ pc = [t \in Threads |-> "idle"]
    /\ op = [t \in Threads |->
               IF t = "t1"
                 THEN [NoOp EXCEPT !.kind = "run", !.hascb = TRUE]
                 ELSE NoOp]
    /\ ret = [t \in Threads |-> IF t = "t1" THEN "None" ELSE "none"]
    /\ nCalls = 1
    /\ decider = [t \in Threads |-> "none"]
    /\ how = [t \in Threads |-> "none"]
    /\ touched = [t \in Threads |-> FALSE]
    /\ lock = "free"
    /\ sn_counter = 1
    /\ reply_events = DictSet(EmptyDict, 1, "callback")
    /\ reply_data = EmptyDict
    /\ screen_print = <<>>
    /\ cmd_wire = <<[cmd |-> FuncEvent(FALSE, TRUE), sn |-> 1]>>
    /\ nReplies = 0
    /\ rpc = "r311"
    /\ rres = NoFrame
    /\ cbInvoked = EmptyDict
    /\ tsn = [t \in Threads |-> IF t = "t1" THEN 1 ELSE 0]
    /\ rtext = [t \in Threads |-> <<>>]
    /\ seen = [t \in Threads |-> NoOutput]
    /\ MotorInit
    /\ DispatchInit
    /\ CodecIdle

\* The listeners read frames and start the callbacks, which return, raise
\* or go on running.
NextDispatch ==
    \/ EventListener
    \/ Rl311Reply
    \/ Rl319
    \/ \E c \in AllCallbacks, e \in Endings : CbEnds(c, e)

SpecDispatch == InitDispatch /\ [][NextDispatch]_vars


\* ------------------------------------------------------------------ codec
\* SpecSocket.py lines 37-39, Client.py lines 24-26.  The magic number is
\* 4277009102 = 0xFEEDFACE, kept as the four bytes struct writes for it.
SV_VERSION == 4
SV_NAME_LEN == 80
SV_SPEC_MAGIC == <<206, 250, 237, 254>>
HeaderSize == 132
SV_STRING == 2

\* struct.pack of one "I" or "i": four bytes, lowest first, two's complement
Pack32(v) ==
    <<v % 256, (v \div 256) % 256, (v \div 65536) % 256,
      (v \div 16777216) % 256>>

\* struct.unpack of one "I"
UnpackU(b) == b[1] + 256 * b[2] + 65536 * b[3] + 16777216 * b[4]

\* struct.unpack of one "i"
UnpackI(b) ==
    b[1] + 256 * b[2] + 65536 * b[3]
      + 16777216 * (IF b[4] >= 128 THEN b[4] - 256 ELSE b[4])

\* word k of a run of 32-bit words
Word(s, k) == SubSeq(s, 4 * k - 3, 4 * k)

\* "80s" of struct.pack, and name[:nl] = ... on np.zeros(80) (Client.py
\* lines 109-111): the first 80 bytes of the name, padded with NULs
PackName(name) ==
    [i \in 1..SV_NAME_LEN |-> IF i <= Len(name) THEN name[i] ELSE 0]

\* .rstrip('\x00')
RECURSIVE RStripNul(_)
RStripNul(s) ==
    IF s = <<>> THEN <<>>
    ELSE IF s[Len(s)] = 0 THEN RStripNul(SubSeq(s, 1, Len(s) - 1))
    ELSE s

\* reduce(lambda acc, f : acc | f, flags) if flags else 0, for lists of at
\* most one flag
FlagsWord(flags) == IF flags = <<>> THEN 0 ELSE flags[1]

\* bytes.decode("utf-8") succeeds: no byte of the alphabets below starts or
\* continues a multi-byte sequence unless it is 128 or more
Utf8Ok(bytes) == \A i \in 1..Len(bytes) : bytes[i] < 128

\* SpecSocket.py lines 96-112 (struct.pack and header + body) and Client.py
\* lines 96-114 with line 342 (header + bb): the 13 words, the name, the body
FrameBytes(f) ==
    f.magic \o Pack32(f.vers) \o Pack32(f.size) \o Pack32(f.sn)
      \o Pack32(f.sec) \o Pack32(f.usec) \o Pack32(f.cmd) \o Pack32(f.type)
      \o Pack32(f.rows) \o Pack32(f.cols) \o Pack32(Len(f.body))
      \o Pack32(f.err) \o Pack32(FlagsWord(f.flags))
      \o PackName(f.name) \o f.body

\* what the two senders fix: magic, version, header size (no padding)
Sent(path, a) ==
    [path |-> path, magic |-> SV_SPEC_MAGIC, vers |-> SV_VERSION,
     size |-> HeaderSize,
     sn |-> a.sn, sec |-> a.sec, usec |-> a.usec, cmd |-> a.cmd,
     type |-> a.type, rows |-> a.rows, cols |-> a.cols, err |-> a.err,
     flags |-> a.flags, name |-> a.name, body |-> a.body]

\* names and bodies over NUL, "a" and "b"; a body of the peer may hold a
\* byte that is not ASCII
LongName(n) == [i \in 1..n |-> 98]
SentNames == {<<>>, <<97>>, <<97, 0>>, LongName(SV_NAME_LEN),
              LongName(SV_NAME_LEN + 1)}
SentBodies == {<<>>, <<97>>, <<97, 0>>}
PeerBodies == {<<118>>, <<200>>}
Shapes == {[rows |-> 0, cols |-> 0], [rows |-> 1, cols |-> 3]}
Stamps == {[sec |-> 1, usec |-> 2]}

\* arguments of SpecSocket.send_spec (lines 78-92) that struct.pack accepts
SendSpecArgs ==
    {[sn |-> sn, sec |-> st.sec, usec |-> st.usec, cmd |-> cmd, type |-> ty,
      rows |-> sh.rows, cols |-> sh.cols, err |-> err, flags |-> fl,
      name |-> nm, body |-> bd] :
        sn \in {0, 1, 2147483647}, st \in Stamps, cmd \in {-1, 14},
        ty \in {0, SV_STRING, 5}, sh \in Shapes, err \in {0, -1},
        fl \in {<<>>, <<4096>>}, nm \in SentNames, bd \in SentBodies}

\* arguments of Client._send_data (lines 334-343): a type other than
\* SV_STRING and 0 raises at line 336, the body is text that
\* body.encode('ascii') accepts, error and flags keep their defaults
SendDataArgs ==
    {[sn |-> sn, sec |-> st.sec, usec |-> st.usec, cmd |-> cmd, type |-> ty,
      rows |-> sh.rows, cols |-> sh.cols, err |-> 0, flags |-> <<>>,
      name |-> nm, body |-> bd] :
        sn \in {0, 1, 2147483647}, st \in Stamps, cmd \in {2, 14},
        ty \in {0, SV_STRING}, sh \in Shapes, nm \in SentNames,
        bd \in SentBodies}

\* frames a peer may write: any magic and version
PeerFrames ==
    {[path |-> "peer", magic |-> mg, vers |-> v, size |-> HeaderSize,
      sn |-> sn, sec |-> 1, usec |-> 2, cmd |-> 13,
      type |-> SV_STRING, rows |-> 0, cols |-> 0, err |-> 0, flags |-> <<>>,
      name |-> <<112>>, body |-> bd] :
        mg \in {SV_SPEC_MAGIC, <<0, 0, 0, 0>>}, v \in {3, 4, 5},
        sn \in {0, 1}, bd \in PeerBodies}

\* the fields of a received frame after the first 12 bytes.  nameAt is the
\* offset of the name in the rest of the header: struct.unpack of
\* "IIIiiIIIii80s{}x" (Client.py line 122) or "IIIiiIIIii{}x80s"
\* (SpecSocket.py line 133).  Lines 123-136 and 134-146: the name and a body
\* of type SV_STRING are decoded and stripped of trailing NULs.
Received(s, magic, vers, size, nameAt) ==
    LET head2 == SubSeq(s, 13, size)
        len == UnpackU(Word(head2, 8))
        type == UnpackI(Word(head2, 5))
        name == SubSeq(head2, nameAt + 1, nameAt + SV_NAME_LEN)
        body == SubSeq(s, size + 1, size + len)
    IN IF type = SV_STRING /\ ~Utf8Ok(body)
          THEN [status |-> "UnicodeDecodeError"]
          ELSE [status |-> "ok", magic |-> magic, vers |-> vers,
                size |-> size,
                sn |-> UnpackU(Word(head2, 1)),
                sec |-> UnpackU(Word(head2, 2)),
                usec |-> UnpackU(Word(head2, 3)),
                cmd |-> UnpackI(Word(head2, 4)),
                type |-> type,
                rows |-> UnpackU(Word(head2, 6)),
                cols |-> UnpackU(Word(head2, 7)),
                len |-> len,
                err |-> UnpackI(Word(head2, 9)),
                flags |-> UnpackI(Word(head2, 10)),
                name |-> RStripNul(name),
                body |-> IF type = SV_STRING THEN RStripNul(body) ELSE body]

\* SpecSocket.recv_spec (lines 122-148) on a stream that holds one frame
RecvSpecResult(s) ==
    LET magic == Word(s, 1)
        vers == UnpackI(Word(s, 2))
        size == UnpackU(Word(s, 3))
    IN IF magic # SV_SPEC_MAGIC THEN [status |-> "ValueError"]
       ELSE IF vers < 4 THEN [status |-> "Exception"]
       ELSE Received(s, magic, vers, size, 40 + (size - HeaderSize))

\* Client._listen (lines 117-139) on a stream that holds one frame
ListenResult(s) ==
    LET magic == Word(s, 1)
        vers == UnpackI(Word(s, 2))
        size == UnpackU(Word(s, 3))
    IN IF vers < 4 THEN [status |-> "Exception"]
       ELSE Received(s, magic, vers, size, 40)

\* a step of the codec
CodecStep == UNCHANGED <<evars, tvars, cvars, mvars, dvars, ovars>>

\* SpecSocket.send_spec(...) writes a frame
SendSpec ==
    /\ tx = NoTx
    /\ \E a \in SendSpecArgs :
          /\ tx' = Sent("SpecSocket", a)
          /\ stream' = FrameBytes(Sent("SpecSocket", a))
    /\ UNCHANGED rx
    /\ CodecStep

\* Client._send_data(...) writes a frame (line 342)
SendDataFrame ==
    /\ tx = NoTx
    /\ \E a \in SendDataArgs :
          /\ tx' = Sent("Client", a)
          /\ stream' = FrameBytes(Sent("Client", a))
    /\ UNCHANGED rx
    /\ CodecStep

\* the peer writes a frame
PeerSends ==
    /\ tx = NoTx
    /\ \E f \in PeerFrames :
          /\ tx' = f
          /\ stream' = FrameBytes(f)
    /\ UNCHANGED rx
    /\ CodecStep

\* SpecSocket.recv_spec() reads the frame
RecvSpec ==
    /\ stream # <<>>
    /\ rx' = RecvSpecResult(stream)
    /\ stream' = <<>>
    /\ UNCHANGED tx
    /\ CodecStep

\* Client._listen(sock) reads the frame
Listen ==
    /\ stream # <<>>
    /\ rx' = ListenResult(stream)
    /\ stream' = <<>>
    /\ UNCHANGED tx
    /\ CodecStep

\* One frame is written by one of the senders or by the peer and read by
\* one of the receivers.
NextCodec == SendSpec \/ SendDataFrame \/ PeerSends \/ RecvSpec \/ Listen

SpecCodec == Init /\ [][NextCodec]_vars


\* ---------------------------------------------------- Var and ArrayVar
\* Var.py and ArrayVar.py.  Every property of a Var reads the variable from
\* the server with conn.get("var/<name>") and computes on the reply; var_res
\* is that reply.  An array object sends a change of an element to the
\* server as a command given to conn.run.

MaxDim == 2
MaxArrayOps == 1

SV_ERROR == 3
SV_ASSOC == 4
SV_ARR_SHORT == 9
SV_ARR_CHAR == 11
SV_ARR_STRING == 13
ARRAYS == 5..15

\* the bytes of one element (DataTypes.NP_TYPES) of the types in the model
ItemSize(type) == IF type = SV_ARR_SHORT THEN 2 ELSE 1

Raises(e) == [status |-> "raises", error |-> e]
Result(kind, dims) == [status |-> "ok", kind |-> kind, dims |-> dims]

Max(a, b) == IF a >= b THEN a ELSE b

\* the number of pieces [allstr[i:i+cols] for i in range(0, len, cols)]
Chunks(len, cols) == (len + cols - 1) \div cols

\* Var.value, lines 45-65, as the kind of the object returned and the shape
\* of the numpy array: np.frombuffer gives a flat array of len / itemsize
\* elements and raises when len is no multiple of the item size; np.reshape
\* raises when rows * cols is not the number of elements.
ValueOf(res) ==
    IF res.type = SV_STRING THEN Result("scalar", <<>>)
    ELSE IF res.type = SV_ERROR THEN Raises("Exception")
    ELSE IF res.type = SV_ASSOC THEN Result("dict", <<>>)
    ELSE IF res.type = SV_ARR_STRING
    THEN IF res.cols = 0 THEN Raises("ValueError")
         ELSE Result("array", <<Chunks(res.len, res.cols)>>)
    ELSE IF res.len % ItemSize(res.type) # 0 THEN Raises("ValueError")
    ELSE IF res.rows + res.cols # 1
    THEN IF res.rows * res.cols = res.len \div ItemSize(res.type)
         THEN Result("array", <<res.rows, res.cols>>)
         ELSE Raises("ValueError")
    ELSE Result("array", <<res.len \div ItemSize(res.type)>>)

\* ArrayVar.shape, lines 23-28
ShapeOf(res) ==
    IF res.type \in ARRAYS
    THEN IF res.cols = 1 \/ res.rows = 1
         THEN Result("tuple", <<Max(res.cols, res.rows)>>)
         ELSE Result("tuple", <<res.rows, res.cols>>)
    ELSE Raises("Exception")

\* the replies of the server for a variable
VarTypes == {SV_STRING, SV_ARR_SHORT, SV_ARR_CHAR, SV_ARR_STRING}
ReplyFrames ==
    [type : VarTypes, rows : 0..MaxDim, cols : 0..MaxDim,
     len : 0..(2 * MaxDim * MaxDim)]

\* the frames the server sends for an array of shorts or of bytes
WellFormed(res) ==
    /\ res.type \in ARRAYS \ {SV_ARR_STRING}
    /\ res.rows >= 1
    /\ res.cols >= 1
    /\ res.len = res.rows * res.cols * ItemSize(res.type)

VarStep ==
    UNCHANGED <<evars, tvars, cvars, mvars, dvars, tx, stream, rx, svars,
                kvars, bvars, uvars>>

\* the variable of the server has a (new) value; what was computed from the
\* old one is forgotten
VarReply(res) ==
    /\ var_res' = res
    /\ var_value' = NoValue
    /\ arr_shape' = NoValue
    /\ UNCHANGED <<arr_sent, arr_result>>
    /\ VarStep

\* Var.value (lines 34-65)
VarValue ==
    /\ var_res # NoVarRes
    /\ var_value' = ValueOf(var_res)
    /\ UNCHANGED <<var_res, arr_shape, arr_sent, arr_result>>
    /\ VarStep

\* ArrayVar.shape (lines 16-28)
ArrayShape ==
    /\ var_res # NoVarRes
    /\ arr_shape' = ShapeOf(var_res)
    /\ UNCHANGED <<var_res, var_value, arr_sent, arr_result>>
    /\ VarStep

NextVar ==
    \/ \E res \in ReplyFrames : VarReply(res)
    \/ VarValue
    \/ ArrayShape

SpecVar == Init /\ [][NextVar]_vars

\* ---- the operations of the array objects ----
Keys == -1..MaxDim
Rows == {0}
Items == {7}
ShapeFrames ==
    {res \in ReplyFrames :
        WellFormed(res) \/ (res.type = SV_STRING /\ res.rows + res.cols = 0)}

Ended(o, outcome) == [op |-> o, outcome |-> outcome]

\* "{}[{}]={}".format(name, key, item) and "{}[{}][{}]={}".format(name,
\* row, index, item)
ElemCmd(key, item) == [row |-> "none", key |-> key, item |-> item]
SubElemCmd(row, index, item) == [row |-> row, key |-> index, item |-> item]

ArrayStep == UNCHANGED <<var_res, var_value, arr_shape>> /\ VarStep

\* an operation that ends with outcome and sends nothing
ArrayEnds(o, outcome) ==
    /\ arr_result' = Ended(o, outcome)
    /\ UNCHANGED arr_sent
    /\ ArrayStep

\* an operation that gives cmd to conn.run
ArrayRuns(o, cmd) ==
    /\ Len(arr_sent) < MaxArrayOps
    /\ arr_sent' = Append(arr_sent, cmd)
    /\ arr_result' = Ended(o, "ok")
    /\ ArrayStep

\* ArrayVar.__setitem__(key, item) for an int key and an item without
\* __len__ (lines 46, 54-59): len(self) is self.shape[0]
ArraySetItem(key, item) ==
    /\ var_res # NoVarRes
    /\ IF ShapeOf(var_res).status = "raises"
       THEN ArrayEnds("setitem", "Exception")
       ELSE IF key >= ShapeOf(var_res).dims[1]
       THEN ArrayEnds("setitem", "IndexError")
       ELSE ArrayRuns("setitem", ElemCmd(key, item))

\* ArrayVar.__delitem__(key) (lines 63-64)
ArrayDelItem(key) == ArrayEnds("delitem", "Exception")

\* an insert that gives the new element to the server
ArrayInsertRuns(index, value) == ArrayRuns("insert", ElemCmd(index, value))

\* ArrayVar.insert(index, value) (lines 69-70)
ArrayInsert(index, value) == ArrayEnds("insert", "Exception")

\* SubArrayVar.__setitem__(index, item) of the view of row (lines 96-102):
\* parent.shape[1] of a one-dimensional shape is an IndexError as well
SubSetItem(row, index, item) ==
    /\ var_res # NoVarRes
    /\ IF ShapeOf(var_res).status = "raises"
       THEN ArrayEnds("sub_setitem", "Exception")
       ELSE IF Len(ShapeOf(var_res).dims) < 2
       THEN ArrayEnds("sub_setitem", "IndexError")
       ELSE IF index >= ShapeOf(var_res).dims[2]
       THEN ArrayEnds("sub_setitem", "IndexError")
       ELSE ArrayRuns("sub_setitem", SubElemCmd(row, index, item))

\* SubArrayVar.__delitem__(index) (lines 104-105)
SubDelItem(row, index) == ArrayEnds("sub_delitem", "Exception")

\* SubArrayVar.insert(index, value) (lines 110-112)
SubInsert(row, index, value) == ArrayEnds("sub_insert", "Exception")

NextArray ==
    \/ \E res \in ShapeFrames : VarReply(res)
    \/ \E key \in Keys, item \in Items : ArraySetItem(key, item)
    \/ \E key \in Keys : ArrayDelItem(key)
    \/ \E index \in Keys, value \in Items : ArrayInsert(index, value)
    \/ \E row \in Rows, index \in Keys, item \in Items :
           SubSetItem(row, index, item)
    \/ \E row \in Rows, index \in Keys : SubDelItem(row, index)
    \/ \E row \in Rows, index \in Keys, value \in Items :
           SubInsert(row, index, value)

SpecArray == Init /\ [][NextArray]_vars

\* ------------------------------------------------ SpecSocket.connect_spec
\* connect_spec (SpecSocket.py lines 44-76) tries the candidates one after
\* the other on the one socket object it is called on.

MaxPort == 2
Ports == 1..MaxPort

\* the argument port: no port (None) or one port
OptPort == {<<>>} \cup {<<p>> : p \in Ports}

\* list(range(lo, hi + 1))
RECURSIVE RangeList(_, _)
RangeList(lo, hi) == IF lo > hi THEN <<>> ELSE <<lo>> \o RangeList(lo + 1, hi)

\* lines 59-61
ToScan(port, ports, port_range) ==
    port \o ports \o RangeList(port_range[1], port_range[2])

\* what the server at a port does with a connection: it refuses it, does
\* not answer the connection request within the timeout, accepts and sends
\* nothing (or a frame recv_spec raises on), accepts and answers HELLO with
\* another command, or accepts and answers with HELLO_REPLY
Behaviours == {"refused", "timeout", "silent", "other", "hello"}

\* the socket after a connect that failed: whether a socket can connect
\* again after a failed connect depends on the platform
AfterFailedConnect == {"fresh", "unusable"}

ConnectStep ==
    UNCHANGED <<evars, tvars, cvars, mvars, dvars, tx, stream, rx, avars,
                kvars, bvars, uvars>>

\* the call, up to the loop (lines 59-63)
ConnectSpec(port, ports, port_range) ==
    /\ conn_result = Conn("idle")
    /\ to_scan' = ToScan(port, ports, port_range)
    /\ conn_result' = Conn("scanning")
    /\ UNCHANGED <<scan_i, sock, tried>>
    /\ ConnectStep

\* one pass of the loop for candidate p = to_scan[scan_i + 1], whose server
\* does b (lines 64-74).  connect raises on a socket that is connected
\* already or unusable and the except clause goes on to the next candidate;
\* so it does when connect fails, when send_spec or recv_spec raises, and
\* the loop goes on as well when the reply is not a HELLO_REPLY.  The
\* server at a port does the same every time the port comes up in one call.
Candidate(b, after) ==
    /\ conn_result = Conn("scanning")
    /\ scan_i < Len(to_scan)
    /\ \A i \in 1..scan_i : to_scan[i] = to_scan[scan_i + 1] => tried[i] = b
    /\ scan_i' = scan_i + 1
    /\ tried' = Append(tried, b)
    /\ IF sock # "fresh"
       THEN UNCHANGED <<sock, conn_result>>
       ELSE IF b \in {"refused", "timeout"}
       THEN sock' = after /\ UNCHANGED conn_result
       ELSE /\ sock' = "connected"
            /\ conn_result' = IF b = "hello" THEN Found(to_scan[scan_i + 1])
                              ELSE Conn("scanning")
    /\ UNCHANGED to_scan
    /\ ConnectStep

\* the else clause of the loop (lines 75-76)
NoneFound ==
    /\ conn_result = Conn("scanning")
    /\ scan_i = Len(to_scan)
    /\ conn_result' = Conn("Exception")
    /\ UNCHANGED <<to_scan, scan_i, sock, tried>>
    /\ ConnectStep

PortLists == {<<>>} \cup {<<p>> : p \in Ports}
PortRanges == Ports \X Ports

NextConnect ==
    \/ \E port \in OptPort, ports \in PortLists,
          port_range \in PortRanges : ConnectSpec(port, ports, port_range)
    \/ \E b \in Behaviours, after \in AfterFailedConnect : Candidate(b, after)
    \/ NoneFound

SpecConnect == Init /\ [][NextConnect]_vars

\* ------------------------------------------------------------ Client.count
\* count (Client.py lines 354-384) called by thread Caller with callback=None
\* and refresh_names=False on a client that knows one counter, whose
\* property "scaler/<counter>/value" is CounterProp.  The call goes through
\* subscribe, run, get and unsubscribe, whose steps are the ones above; the
\* event listener starts a thread with count_callback for every event of
\* the property.

Caller == "t1"
CounterProp == "p"
counter_names == {CounterProp}

\* float(res.body) of the reply of the get of line 381: the value of the
\* last event or another one
FinalBodies == PropBodies \cup {"w"}

CountOp(kind, cb, first, blocking) ==
    [kind |-> kind, prop |-> IF cb = "none" THEN "none" ELSE CounterProp,
     cb |-> cb, nowait |-> FALSE, first |-> first, blocking |-> blocking,
     hascb |-> FALSE]

\* the count call starts a call of the client
CountStarts(o) ==
    /\ pc[Caller] = "idle"
    /\ op' = [op EXCEPT ![Caller] = o]
    /\ decider' = [decider EXCEPT ![Caller] = "none"]
    /\ how' = [how EXCEPT ![Caller] = "none"]
    /\ UNCHANGED nCalls

CountStep ==
    UNCHANGED <<evars, cvars, mvars, dvars, tx, stream, rx, avars, svars,
                data, status, uvars>>

\* a step of count that starts no thread
CountQuiet == CountStep /\ UNCHANGED <<has_callback, data_threads>>

\* lines 372-373: if callback: threading.Thread(target=callback,
\* args=(countvals,)).start()
StartsCallback ==
    data_threads' = IF has_callback
                      THEN [data_threads EXCEPT !.new = @ + 1]
                      ELSE data_threads

\* line 369: countvals = {key: 0.0 for key in self.counter_names.keys()}
CountCalled(callback) ==
    /\ cnt_pc = "idle"
    /\ has_callback' = callback
    /\ UNCHANGED data_threads
    /\ \A t \in Threads : pc[t] = "idle"
    /\ countvals' = [c \in counter_names |-> "0.0"]
    /\ subs_before' = subscriptions
    /\ cnt_pc' = "c376"
    /\ UNCHANGED <<tvars, got>>
    /\ CountStep

\* count(time)
CountCall == CountCalled(FALSE)

\* line 376: self.subscribe("scaler/{}/value".format(counter), count_callback)
CountSubscribe ==
    /\ cnt_pc = "c376"
    /\ CountStarts(CountOp("subscribe", CountCallback,
                           CounterProp \notin DOMAIN subscriptions, FALSE))
    /\ IF CounterProp \notin DOMAIN subscriptions
          THEN Goto(Caller, "s155") ELSE Goto(Caller, "s171")
    /\ touched' = [touched EXCEPT ![Caller] = FALSE]
    /\ cnt_pc' = "c378"
    /\ UNCHANGED <<countvals, got, subs_before>>
    /\ CountQuiet

\* line 378: self.run("count {}".format(time)), after subscribe has returned
CountRun ==
    /\ cnt_pc = "c378"
    /\ CountStarts(CountOp("run", "none", FALSE, TRUE))
    /\ Goto(Caller, "r214")
    /\ cnt_pc' = "c381"
    /\ UNCHANGED <<touched, countvals, got, subs_before>>
    /\ CountQuiet

\* line 381: self.get("scaler/{}/value".format(counter)), after run has
\* returned; an exception of run ends count
CountGet ==
    /\ cnt_pc = "c381"
    /\ pc[Caller] = "idle"
    /\ IF ret[Caller] = "KeyError"
          THEN /\ cnt_pc' = "raised"
               /\ UNCHANGED tvars
          ELSE /\ CountStarts(CountOp("get", "none", FALSE, TRUE))
               /\ Goto(Caller, "g242")
               /\ cnt_pc' = "c381cb"
               /\ UNCHANGED touched
    /\ UNCHANGED <<countvals, got, subs_before>>
    /\ CountQuiet

\* line 381: count_callback(res) with the reply of the get; res is None
\* after an error reply, and res.name raises
CountFinal ==
    /\ cnt_pc = "c381cb"
    /\ pc[Caller] = "idle"
    /\ IF ret[Caller] \in {"None", "KeyError"}
          THEN /\ cnt_pc' = "raised"
               /\ UNCHANGED <<countvals, got, data_threads>>
          ELSE /\ \E b \in FinalBodies :
                     /\ countvals' = [countvals EXCEPT ![CounterProp] = b]
                     /\ got' = b
               /\ StartsCallback
               /\ cnt_pc' = "c382"
    /\ UNCHANGED <<tvars, subs_before, has_callback>>
    /\ CountStep

\* line 382: self.unsubscribe("scaler/{}/value".format(counter),
\* count_callback)
CountUnsubscribe ==
    /\ cnt_pc = "c382"
    /\ CountStarts(CountOp("unsubscribe", CountCallback, FALSE, FALSE))
    /\ touched' = [touched EXCEPT
                     ![Caller] = /\ CounterProp \in DOMAIN subscriptions
                                 /\ InList(CountCallback,
                                           subscriptions[CounterProp])]
    /\ IF CounterProp \in DOMAIN subscriptions
          THEN Goto(Caller, "u186") ELSE Return(Caller, "False")
    /\ cnt_pc' = "c384"
    /\ UNCHANGED <<countvals, got, subs_before>>
    /\ CountQuiet

\* line 384: return countvals, after unsubscribe has returned; the caller
\* holds the dict the callback threads write to
CountReturn ==
    /\ cnt_pc = "c384"
    /\ pc[Caller] = "idle"
    /\ cnt_pc' = "returned"
    /\ UNCHANGED <<tvars, countvals, got, subs_before>>
    /\ CountQuiet

\* lines 370-372 in a thread the event listener started for an event of the
\* property: countvals[res.name.split("/")[1]] = float(res.body)
CountCallbackRuns ==
    /\ running[CountCallback] > 0
    /\ running' = [running EXCEPT ![CountCallback] = @ - 1]
    /\ \E b \in PropBodies :
          countvals' = [countvals EXCEPT ![CounterProp] = b]
    /\ StartsCallback
    /\ UNCHANGED <<evars, tvars, cvars, mvars, raised, tx, stream, rx, avars,
                   svars, cnt_pc, got, subs_before, has_callback, data,
                   status, uvars>>

\* another part of the program has subscribed to the property of the
\* counter before count is called
OtherSubscribes ==
    /\ cnt_pc = "idle"
    /\ SubscribeCall("t2", CounterProp, "cb2", TRUE)

NextCount ==
    \/ OtherSubscribes
    \/ CountCall
    \/ CountSubscribe
    \/ CountRun
    \/ CountGet
    \/ CountFinal
    \/ CountUnsubscribe
    \/ CountReturn
    \/ \E t \in Threads : SubscribeStep(t)
    \/ UnsubscribeStep(Caller)
    \/ RunStep(Caller)
    \/ GetStep(Caller)
    \/ EventListener
    \/ Rl311Reply \/ Rl319 \/ Rl320 \/ Rl321
    \/ CountCallbackRuns

SpecCount == Init /\ [][NextCount]_vars

\* ------------------------------------------------------ the console text
\* One thread calls run(command) while the server sends output frames, with
\* any serial number, and replies.

\* the end of the prompt the server prints when a command is done
Prompt == <<">", " ", "\n">>

\* a segment that fills more than half of the accumulator
HalfFull(c) == [i \in 1..(MAX_SCREEN_PRINT_LEN \div 2 + 1) |-> c]

ConsoleBodies ==
    {<<"a">>, Prompt, <<"a", "\n", "1", ">", " ", "\n">>,
     <<"x", "y", "\n">>, HalfFull("b"), HalfFull("c")}

ConsoleRun ==
    /\ pc[Caller] = "idle"
    /\ CmdCall(Caller, "run", TRUE, FALSE, "r214")

NextConsole ==
    \/ ConsoleRun
    \/ RunStep(Caller)
    \/ \E body \in ConsoleBodies, sn \in 0..1 : RlOutput(body, sn)
    \/ Rl311Reply \/ Rl319 \/ Rl320 \/ Rl321

SpecConsole == Init /\ [][NextConsole]_vars

\* -------------------------------------------------- bluesky.Counter.trigger
\* Counter.py: trigger starts a thread that runs client.count with
\* _data_callback as callback and then marks the status finished; read
\* returns self.data.

\* lines 46-50: self.status = Status(); the thread of run_count is started
Trigger ==
    /\ status = "none"
    /\ status' = "pending"
    /\ UNCHANGED <<evars, tvars, cvars, mvars, dvars, tx, stream, rx, avars,
                   svars, kvars, data_threads, data, uvars>>

\* line 48: self.client.count(self.duration, callback=self._data_callback)
\* is called in that thread
RunCount ==
    /\ status = "pending"
    /\ CountCalled(TRUE)

\* line 49: self.status.set_finished(), after count has returned
SetFinished ==
    /\ status = "pending"
    /\ cnt_pc = "returned"
    /\ status' = "finished"
    /\ UNCHANGED <<evars, tvars, cvars, mvars, dvars, tx, stream, rx, avars,
                   svars, kvars, data_threads, data, uvars>>

DataStep ==
    UNCHANGED <<evars, tvars, cvars, mvars, dvars, tx, stream, rx, avars,
                svars, kvars, status, uvars>>

\* line 42 in a thread count_callback started: self.data = OrderedDict()
D42 ==
    /\ data_threads.new > 0
    /\ data_threads' = [new |-> data_threads.new - 1,
                        filling |-> data_threads.filling + 1]
    /\ data' = "empty"
    /\ DataStep

\* lines 43-44: the items of rdata, which is the dict countvals itself, are
\* copied as they are now; the thread ends
D43 ==
    /\ data_threads.filling > 0
    /\ data_threads' = [data_threads EXCEPT !.filling = @ - 1]
    /\ data' = countvals[CounterProp]
    /\ DataStep

NextTrigger ==
    \/ OtherSubscribes
    \/ Trigger
    \/ RunCount
    \/ SetFinished
    \/ CountSubscribe
    \/ CountRun
    \/ CountGet
    \/ CountFinal
    \/ CountUnsubscribe
    \/ CountReturn
    \/ \E t \in Threads : SubscribeStep(t)
    \/ UnsubscribeStep(Caller)
    \/ RunStep(Caller)
    \/ GetStep(Caller)
    \/ EventListener
    \/ Rl311Reply \/ Rl319 \/ Rl320 \/ Rl321
    \/ CountCallbackRuns
    \/ D42
    \/ D43

SpecTrigger == Init /\ [][NextTrigger]_vars

\* ------------------------------------------------- reading a body in chunks
\* SpecSocket.recv_spec lines 137-141 and Client._listen lines 127-131, the
\* same loop twice.  The bytes of the frame are on their way; a recv(n) of a
\* stream socket returns as soon as some bytes are there, between 1 and n of
\* them.
ChunkSize == 4096
Readers == {"recv_spec", "_listen"}
BodyLens == {0, 1, 2, 100, ChunkSize, ChunkSize + 1, 2 * ChunkSize + 2}

Min(a, b) == IF a <= b THEN a ELSE b

\* what one recv(n) may return: everything asked for, or part of it
Delivered(n) == {k \in {1, 2, n - 1, n} : 1 <= k /\ k <= n}

ReaderStep ==
    UNCHANGED <<evars, tvars, cvars, mvars, dvars, tx, stream, rx, avars,
                svars, kvars, bvars, gvars>>

\* lines 137-138 and 127-128: the header of a frame with body length len has
\* been read; body = b''; bleft = res.len
BodyStarts ==
    /\ rd_pc \in {"idle", "returned"}
    /\ \E r \in Readers, len \in BodyLens :
          /\ rd_reader' = r
          /\ rd_len' = len
          /\ bleft' = len
    /\ rd_read' = 0
    /\ rd_asked' = 0
    /\ rd_pc' = "loop"
    /\ ReaderStep

\* lines 139-141 and 129-131: while bleft > 0:
\* body += recv(min(4096, bleft)); bleft -= 4096
RecvChunk ==
    /\ rd_pc = "loop"
    /\ bleft > 0
    /\ \E k \in Delivered(Min(ChunkSize, bleft)) : rd_read' = rd_read + k
    /\ rd_asked' = Max(rd_asked, Min(ChunkSize, bleft))
    /\ bleft' = bleft - ChunkSize
    /\ UNCHANGED <<rd_pc, rd_reader, rd_len>>
    /\ ReaderStep

\* the loop ends; the receiver goes on to decode body and returns
BodyEnds ==
    /\ rd_pc = "loop"
    /\ bleft <= 0
    /\ rd_pc' = "returned"
    /\ UNCHANGED <<rd_reader, rd_len, bleft, rd_read, rd_asked>>
    /\ ReaderStep

NextReader == BodyStarts \/ RecvChunk \/ BodyEnds

SpecReader == Init /\ [][NextReader]_vars

\* ------------------------------------------------ several Motor objects
\* Motor.py with more than one Motor object of a client.  The dict
\* _observed_properties_conditions and the list _observed_properties_cbs
\* are attributes of the class (lines 68-69): all objects share them.  A
\* closure set_and_notify is the pair of its object and its number; it reads
\* the variable prop of the __init__ that made it when it runs.
MaxObjMoves == 1

ObjStep ==
    UNCHANGED <<evars, tvars, cvars, mvars, dvars, tx, stream, rx, avars,
                svars, kvars, bvars, hvars>>

Key(n, p) == [mne |-> n, prop |-> p]

\* the value the server holds for a property of motor n
Held(n, p) ==
    IF p = "move_done"
      THEN IF srv_motor[n] = "moving" THEN Busy ELSE Idle
      ELSE "10"

\* the server sends the events evs
SendEvents(evs) ==
    /\ motor_events' = motor_events \o evs
    /\ n_ev' = n_ev + Len(evs)

\* the thread the listener starts for callback cb and an event, which is
\* the answer to a REGISTER ("first") or reports a move ("move")
Started(cb, k, body, kind) ==
    [cb |-> cb, key |-> k, body |-> body, kind |-> kind]

\* Client.subscribe lines 154-173 when no error is reported: the first
\* callback of a key makes the entry and sends REGISTER, which the server
\* answers with the value it holds, and subscribe returns when the listener
\* has read that event (line 162) and starts the callback with it; a
\* further callback is appended unless it is in the list
Subscribed(k, cb) ==
    IF motor_subs[k] = <<>>
      THEN /\ motor_subs' = [motor_subs EXCEPT ![k] = <<cb>>]
           /\ cb_threads' =
                cb_threads \cup {Started(cb, k, Held(k.mne, k.prop), "first")}
      ELSE /\ motor_subs' =
                [motor_subs EXCEPT
                   ![k] = IF InList(cb, @) THEN @ ELSE Append(@, cb)]
           /\ UNCHANGED cb_threads

\* Client.unsubscribe lines 186-195: the callback is removed if it is in the
\* list of the key, and the entry with the last callback
Unsubscribed(k, cb) ==
    motor_subs' = [motor_subs EXCEPT ![k] = ListRemove(@, cb)]

\* the objects are made for different motors
Mne(m) == IF m = "m1" THEN "a" ELSE "b"

\* Motor(mne, conn), lines 71-74; the objects are made one after the other,
\* m1 first
Construct(m) ==
    /\ obj[m].state = "none"
    /\ m = "m2" => obj["m1"].state \notin {"none", "init"}
    /\ obj' = [obj EXCEPT ![m] = [@ EXCEPT !.state = "init", !.mne = Mne(m)]]
    /\ UNCHANGED <<conditions, observed_cbs, motor_subs, motor_events,
                   cb_threads, mv, cond_owner, srv_motor, n_ev, n_mv>>
    /\ ObjStep

\* lines 77-85, one turn of the loop: prop is the next observed property;
\* the closure is appended to the list of the class, a new Condition
\* replaces the entry of prop in the dict of the class, and the closure
\* that is last in the list is subscribed
InitTurn(m) ==
    /\ obj[m].state = "init"
    /\ LET p == observed_properties[obj[m].i + 1]
           cb == [self |-> m, k |-> obj[m].i + 1]
       IN /\ observed_cbs' = Append(observed_cbs, cb)
          /\ conditions' = [conditions EXCEPT ![p] = Len(observed_cbs) + 1]
          /\ Subscribed(Key(obj[m].mne, p), cb)
          /\ obj' = [obj EXCEPT
                       ![m] = [@ EXCEPT
                                 !.prop = p,
                                 !.i = IF obj[m].i = 2 THEN 0 ELSE @ + 1,
                                 !.state = IF obj[m].i = 2 THEN "live"
                                           ELSE "init"]]
    /\ UNCHANGED <<motor_events, mv, cond_owner, srv_motor, n_ev, n_mv>>
    /\ ObjStep

\* Client.py lines 327-332: the listener reads an event and starts a thread
\* per callback of its key
Deliver ==
    /\ motor_events # <<>>
    /\ LET ev == Head(motor_events)
           l == motor_subs[ev.key]
       IN cb_threads' = cb_threads \cup
             {Started(l[j], ev.key, ev.body, "move") : j \in 1..Len(l)}
    /\ motor_events' = Tail(motor_events)
    /\ UNCHANGED <<obj, conditions, observed_cbs, motor_subs, mv,
                   cond_owner, srv_motor, n_ev, n_mv>>
    /\ ObjStep

\* lines 79-81 in a thread of a closure: setattr(self, "_"+prop, res.body),
\* with the prop of the __init__ of the closure's object as it is now, and
\* notify_all() on the Condition the dict of the class holds for that prop
\* now; the thread ends.  Of the attributes only _move_done is kept.
ObjCallback(t) ==
    /\ t \in cb_threads
    /\ obj' = IF obj[t.cb.self].prop = "move_done"
                THEN [obj EXCEPT ![t.cb.self].move_done = t.body]
                ELSE obj
    /\ LET c == conditions[obj[t.cb.self].prop]
       IN /\ cond_owner[c] = "free"
          /\ mv' = [m \in Objects |->
                      IF mv[m].waiting = c
                        THEN [mv[m] EXCEPT !.waiting = 0] ELSE mv[m]]
    /\ cb_threads' = cb_threads \ {t}
    /\ UNCHANGED <<conditions, observed_cbs, motor_subs, motor_events,
                   cond_owner, srv_motor, n_ev, n_mv>>
    /\ ObjStep

MvStep(m, l) ==
    /\ mv[m].pc = l
    /\ UNCHANGED <<conditions, observed_cbs, motor_subs, cb_threads, n_ev,
                   motor_events, srv_motor>>
    /\ ObjStep

\* lines 137-140: moveto(value) with blocking=True: the server takes the
\* move command without error, starts the motor and reports move_done busy
ObjMoveto(m) ==
    /\ obj[m].state = "live"
    /\ mv[m].pc = "idle"
    /\ srv_motor[obj[m].mne] = "idle"
    /\ n_mv < MaxObjMoves
    /\ n_mv' = n_mv + 1
    /\ srv_motor' = [srv_motor EXCEPT ![obj[m].mne] = "moving"]
    /\ SendEvents(<<[key |-> Key(obj[m].mne, "move_done"), body |-> Busy]>>)
    /\ mv' = [mv EXCEPT ![m] = [NoMove EXCEPT !.pc = "m143"]]
    /\ UNCHANGED <<obj, conditions, observed_cbs, motor_subs, cb_threads,
                   cond_owner>>
    /\ ObjStep

\* line 143: self._move_done = self.get("move_done").body
Obj143(m) ==
    /\ MvStep(m, "m143")
    /\ obj' = [obj EXCEPT ![m].move_done = Held(obj[m].mne, "move_done")]
    /\ mv' = [mv EXCEPT ![m].pc = "m145"]
    /\ UNCHANGED <<cond_owner, n_mv>>

\* line 145: with self._observed_properties_conditions["move_done"]
Obj145(m) ==
    /\ MvStep(m, "m145")
    /\ cond_owner[conditions["move_done"]] = "free"
    /\ cond_owner' = [cond_owner EXCEPT ![conditions["move_done"]] = m]
    /\ mv' = [mv EXCEPT ![m].pc = "m146",
                        ![m].held = conditions["move_done"]]
    /\ UNCHANGED <<obj, n_mv>>

\* lines 146-147: while not self.move_done: the Condition the dict holds
\* now .wait(), which raises RuntimeError unless the caller holds its lock
\* and releases the lock otherwise; the with block releases the lock it
\* took when it is left
Obj146(m) ==
    /\ MvStep(m, "m146")
    /\ cond_owner' = [cond_owner EXCEPT ![mv[m].held] = "free"]
    /\ IF MoveDone(obj[m].move_done)
          THEN mv' = [mv EXCEPT ![m] = [NoMove EXCEPT !.ret = "ok"]]
          ELSE IF conditions["move_done"] # mv[m].held
                 THEN mv' = [mv EXCEPT
                               ![m] = [NoMove EXCEPT !.ret = "RuntimeError"]]
                 ELSE mv' = [mv EXCEPT ![m].pc = "m147",
                                       ![m].waiting = mv[m].held]
    /\ UNCHANGED <<obj, n_mv>>

\* line 147: wait() returns after a notify, with the lock
Obj147(m) ==
    /\ MvStep(m, "m147")
    /\ mv[m].waiting = 0
    /\ cond_owner[mv[m].held] = "free"
    /\ cond_owner' = [cond_owner EXCEPT ![mv[m].held] = m]
    /\ mv' = [mv EXCEPT ![m].pc = "m146"]
    /\ UNCHANGED <<obj, n_mv>>

\* the motor arrives: the server reports the position and move_done idle
MotorArrives(n) ==
    /\ srv_motor[n] = "moving"
    /\ srv_motor' = [srv_motor EXCEPT ![n] = "idle"]
    /\ SendEvents(<<[key |-> Key(n, "position"), body |-> "10"],
                    [key |-> Key(n, "move_done"), body |-> Idle]>>)
    /\ UNCHANGED <<obj, conditions, observed_cbs, motor_subs, cb_threads, mv,
                   cond_owner, n_mv>>
    /\ ObjStep

\* the object is destroyed and __del__ is called (line 87), while no other
\* object is being made
Del(m) ==
    /\ obj[m].state = "live"
    /\ \A o \in Objects : obj[o].state # "init"
    /\ mv[m].pc = "idle"
    /\ obj' = [obj EXCEPT ![m].state = "del"]
    /\ UNCHANGED <<conditions, observed_cbs, motor_subs, motor_events,
                   cb_threads, mv, cond_owner, srv_motor, n_ev, n_mv>>
    /\ ObjStep

\* lines 88-89, one turn of the loop:
\* self.unsubscribe(prop, self._observed_properties_cbs[i])
DelTurn(m) ==
    /\ obj[m].state = "del"
    /\ Unsubscribed(Key(obj[m].mne, observed_properties[obj[m].i + 1]),
                    observed_cbs[obj[m].i + 1])
    /\ obj' = [obj EXCEPT
                 ![m] = [@ EXCEPT
                           !.i = IF obj[m].i = 2 THEN 0 ELSE @ + 1,
                           !.state = IF obj[m].i = 2 THEN "gone" ELSE "del"]]
    /\ UNCHANGED <<conditions, observed_cbs, motor_events, cb_threads, mv,
                   cond_owner, srv_motor, n_ev, n_mv>>
    /\ ObjStep

NextObjects ==
    \/ \E m \in Objects :
          \/ Construct(m) \/ InitTurn(m) \/ ObjMoveto(m) \/ Obj143(m)
          \/ Obj145(m) \/ Obj146(m) \/ Obj147(m) \/ Del(m) \/ DelTurn(m)
    \/ \E n \in MotorNames : MotorArrives(n)
    \/ Deliver
    \/ \E t \in cb_threads : ObjCallback(t)

SpecObjects == Init /\ [][NextObjects]_vars

\* ------------------------------------------------------------------ claims
Done(t) == pc[t] = "idle" /\ ret[t] # "none"

\* C1: N concurrent subscribe calls with distinct callbacks for a property
\* that is not registered yet write exactly one REGISTER frame for it, and
\* once all N calls have returned successfully all N callbacks are
\* registered for the property.
C1_SubscribeDedup ==
    /\ (\A t \in Threads : ret[t] \in {"none", "True"})
          => regCount["p"] <= 1
    /\ (\A t \in Threads : Done(t) /\ ret[t] = "True")
          => /\ regCount["p"] = 1
             /\ "p" \in DOMAIN subscriptions
             /\ \A t \in Threads : InList(CbOf(t), subscriptions["p"])

\* C2: from a property with N registered callbacks, once all N have been
\* removed by unsubscribe calls, exactly one UNREGISTER frame for the
\* property has been written, every call returned true without raising, and
\* the property has no entry in the subscription table.
C2_UnsubscribeAll ==
    /\ unregCount["p"] <= 1
    /\ \A t \in Threads : ret[t] \in {"none", "True"}
    /\ (\A t \in Threads : Done(t))
          => /\ unregCount["p"] = 1
             /\ "p" \notin DOMAIN subscriptions

\* a finished subscribe call of thread t that sent REGISTER and waited
WaitedSubscribe(t) ==
    /\ Done(t)
    /\ op[t].kind = "subscribe"
    /\ op[t].first
    /\ ~op[t].nowait

\* C3: when the error channel delivers an event with an error text before
\* the first event of the property, subscribe fails and leaves no local
\* registration of the callback.  (Failing is read as "does not report
\* success", whether by an exception or by returning False.)
C3_ErrorFirstFails ==
    \A t \in Threads :
        (WaitedSubscribe(t) /\ decider[t] = "error")
          => /\ ret[t] # "True"
             /\ op[t].prop \in DOMAIN subscriptions
                   => ~InList(op[t].cb, subscriptions[op[t].prop])

\* C4: the outcome of a waiting subscribe is decided by the first event of
\* its property or of the error channel received after the REGISTER was
\* sent: it is released by such an event only, succeeds when that event is
\* the property's and does not succeed when it is an error text.
C4_FirstFrameDecides ==
    \A t \in Threads :
        WaitedSubscribe(t)
          => /\ how[t] = "woke" => decider[t] # "none"
             /\ decider[t] = "prop" => ret[t] = "True"
             /\ decider[t] = "error" => ret[t] # "True"

\* C5: when neither an event of the property nor an event of the error
\* channel arrives after the REGISTER, subscribe returns False and does not
\* raise.
C5_SilenceReturnsFalse ==
    \A t \in Threads :
        (WaitedSubscribe(t) /\ decider[t] = "none") => ret[t] = "False"

\* a step of thread t inside the branch of subscribe for a property that is
\* registered already (lines 170-173)
ResubscribeStep(t) ==
    /\ pc'[t] # pc[t]
    /\ pc[t] \in {"s171", "s172"} \/ pc'[t] = "s171"

\* the call of thread t returns r in this step
Returns(t, r) == pc[t] # "idle" /\ pc'[t] = "idle" /\ ret'[t] = r

\* C6 as stated: subscribe on a property that has a local registration writes
\* no REGISTER frame, appends the callback and immediately delivers the
\* last frame of the property to the new callback.
C6_ResubscribeDelivers ==
    [][\A t \in Threads :
         ResubscribeStep(t)
           => /\ regCount' = regCount
              /\ (Returns(t, "True") /\ last_event.name = op[t].prop)
                    => invoked'[op[t].cb] = invoked[op[t].cb] + 1]_vars

\* C6 as amended: subscribe on a property that has a local registration
\* writes no frame and starts no callback; when it returns True the callback
\* is in the list of the property.
C6_ResubscribeAppends ==
    [][\A t \in Threads :
         ResubscribeStep(t)
           => /\ regCount' = regCount
              /\ unregCount' = unregCount
              /\ invoked' = invoked
              /\ Returns(t, "True")
                    => /\ op[t].prop \in DOMAIN subscriptions'
                       /\ InList(op[t].cb, subscriptions'[op[t].prop])]_vars

\* a late subscriber has returned True after a frame of the property was
\* read, and no thread was started for its callback
C6_Witness ==
    \E t \in Threads :
        /\ Done(t)
        /\ op[t].kind = "subscribe"
        /\ ~op[t].first
        /\ ret[t] = "True"
        /\ last_event.name = op[t].prop
        /\ op[t].prop \in DOMAIN subscriptions
        /\ Len(subscriptions[op[t].prop]) = 2
        /\ invoked[op[t].cb] = 0

\* C7: unsubscribe for a pair that is not registered returns False, writes
\* no frame and leaves the subscription table unchanged.
C7_UnsubscribeUnregistered ==
    [][\A t \in Threads :
         (op'[t].kind = "unsubscribe" /\ ~touched'[t]
            /\ (pc'[t] # pc[t] \/ nCalls' # nCalls))
           => /\ regCount' = regCount
              /\ unregCount' = unregCount
              /\ subscriptions' = subscriptions
              /\ pc'[t] = "idle" => ret'[t] = "False"]_vars

\* a finished blocking call of thread t on the command socket
BlockingCallDone(t) ==
    /\ Done(t)
    /\ op[t].kind \in {"get", "set", "run"}
    /\ op[t].blocking

\* C8: once a blocking call (get, set, blocking run) has returned, the
\* routing tables hold neither a waiting slot nor a stored reply for its
\* serial number, so that a later frame with that number is dropped without
\* changing any state.
C8_NoEntryAfterReturn ==
    \A t \in Threads :
        BlockingCallDone(t)
          => /\ tsn[t] \notin DOMAIN reply_events
             /\ tsn[t] \notin DOMAIN reply_data

\* C9: a one-shot callback of a non-blocking run is started at most once:
\* the first frame with its serial number starts it and removes the
\* registration, and a further frame with that number starts nothing.
C9_OneShotOnce ==
    \A sn \in DOMAIN cbInvoked :
        /\ cbInvoked[sn] <= 1
        /\ sn \notin DOMAIN reply_events

\* serial numbers of the frames on the command socket are pairwise distinct
WireSnsDistinct ==
    \A i, j \in 1..Len(cmd_wire) :
        i # j => cmd_wire[i].sn # cmd_wire[j].sn

EvWriting == {t \in Threads : pc[t] \in {"s159s", "u192s"}}

\* threads inside sock.send: part of their frame is on the stream
CmdWriting == {t \in Threads : pc[t] \in {"r223s", "g246s", "set273s", "a342s"}}

C12_GetTerminates ==
    \A t \in Threads :
        (pc[t] = "g247" /\ rpc # "failed")
          ~> (pc[t] = "idle" \/ rpc = "failed")


\* the set call of thread t ends in this step because its wait timed out
\* with no reply stored for its serial number
SetTimesOut(t) ==
    /\ pc[t] = "set274"
    /\ pc'[t] = "idle"
    /\ tsn[t] \in DOMAIN reply_events
    /\ reply_events[tsn[t]] = "unset"

\* the set call of thread t ends in this step after its wait was released
\* by a reply of type ty with its serial number
SetGetsReply(t, ty) ==
    /\ pc[t] = "set275"
    /\ pc'[t] = "idle"
    /\ tsn[t] \in DOMAIN reply_data
    /\ reply_data[tsn[t]].sn = tsn[t]
    /\ reply_data[tsn[t]].type = ty

\* C13 as stated: set reports success when no reply with its serial number
\* arrives within wait_for_error, and fails with RemoteError when a reply of
\* type ERROR with its serial number arrives within that window.
C13_SetRaisesOnError ==
    [][\A t \in Threads :
         /\ SetTimesOut(t) => ret'[t] = "True"
         /\ SetGetsReply(t, "ERROR") => ret'[t] = "RemoteError"]_vars

\* C13 as amended: set returns True when no reply with its serial number
\* arrives within wait_for_error, and returns False, without raising, when a
\* reply of type ERROR with its serial number arrives within that window.
C13_SetReturnsFalseOnError ==
    [][\A t \in Threads :
         /\ SetTimesOut(t) => ret'[t] = "True"
         /\ SetGetsReply(t, "ERROR") => ret'[t] = "False"]_vars

\* one set call has returned False after an ERROR reply and another has
\* returned True after its wait timed out
C13_Witness ==
    \E t \in Threads, u \in Threads :
        /\ Done(t) /\ op[t].kind = "set" /\ ret[t] = "False"
        /\ Done(u) /\ op[u].kind = "set" /\ ret[u] = "True"
        /\ tsn[u] \in DOMAIN reply_events
        /\ reply_events[tsn[u]] = "unset"


\* thread t is blocked in get, set or run, waiting for its reply
WaitsForReply(t) ==
    /\ pc[t] \in {"r226", "g247", "set274"}
    /\ tsn[t] \in DOMAIN reply_events
    /\ reply_events[tsn[t]] = "unset"

\* C14: a caller blocked in get, set or run while it waits for its reply
\* does not keep other callers from sending: a thread that has called abort
\* (or run, get, set) in the meantime can take the lock and write its frame.
C14_WaiterBlocksNoSender ==
    \A t \in Threads, u \in Threads :
        (/\ u # t
         /\ WaitsForReply(t)
         /\ pc[u] \in {"a337", "r214", "g242", "set269"})
          => lock = "free"


\* the elements of a occur in b in the same order
RECURSIVE IsSubseq(_, _)
IsSubseq(a, b) ==
    IF a = <<>> THEN TRUE
    ELSE IF b = <<>> THEN FALSE
    ELSE IF Head(a) = Head(b) THEN IsSubseq(Tail(a), Tail(b))
    ELSE IsSubseq(a, Tail(b))

\* the blocking run of thread t returns its reply in this step
RunReturns(t) ==
    /\ pc[t] = "r228"
    /\ pc'[t] = "idle"
    /\ ret'[t] \in ReplyTypes

\* C15: a blocking run returns the reply frame that carries the serial
\* number of its command, together with console text that contains, in the
\* order of arrival, every output segment received between the sending of
\* the command and the receipt of its reply, also when other threads call
\* run at the same time.
C15_RunReturnsItsOutput ==
    [][\A t \in Threads :
         RunReturns(t)
           => /\ reply_data[tsn[t]].sn = tsn[t]
              /\ IsSubseq(seen[t].text, rtext'[t])]_vars


\* what a call returns when it succeeds
NormalResults == {"True", "False", "None"} \cup ReplyTypes

\* C16: when the transport fails while callers are blocked waiting for
\* replies, every such caller is released with an error instead of staying
\* blocked forever.
C16_TransportFailureReleases ==
    \A t \in Threads :
        (rpc = "failed" /\ WaitsForReply(t))
          ~> (pc[t] = "idle" /\ ret[t] \notin NormalResults)


\* the cached move-completion value says done: SPEC reports zero for a motor
\* that is not busy
CachedDone == FloatIsZero(move_done_attr)

\* moveto returns without an error in this step
MovetoReturnsOk ==
    /\ mpc["main"] # "idle"
    /\ mpc'["main"] = "idle"
    /\ mret' = "ok"

C18_BlockingMovetoReturns ==
    (/\ mop.blocking
     /\ mpc["main"] \notin {"idle", "m137", "m137w"}
     /\ mres.err = 0
     /\ srv_move = "done")
      ~> (mpc["main"] = "idle")


\* C19: whenever the server answers the move command with a nonzero error
\* code, moveto raises, with blocking and without, and in that case it
\* neither waits for the move to complete nor calls the callback: while the
\* command stands refused, a moveto that has ended has raised, no forced
\* read of move_done starts and the callback is not called.
C19_ErrorCodeRaises ==
    [][(cmd_state' = "taken" /\ cmd_err' # 0)
         => /\ (mpc'["main"] = "idle" /\ mret' # "none")
                  => mret' = "Exception"
            /\ \A th \in MotorThreads :
                  mpc'[th] = "m143s" => mpc[th] = "m143s"
            /\ cbCalls' = cbCalls]_vars


\* C20: moveto(value, blocking=False, callback) returns without waiting for
\* the move, and its callback is called exactly once, by the background
\* thread, and only in a state where the cached move_done reads as done:
\* the calling thread never enters the waiting loop, each call of the
\* callback is a step of wait_for_finish taken while the cache reads done,
\* and once the server has reported the move done wait_for_finish comes to
\* its end.
C20_CallbackOnceWhenDone ==
    /\ [](~mop.blocking
            => mpc["main"] \in {"idle", "m137", "m138"})
    /\ [][cbCalls' # cbCalls
            => /\ cbCalls' = cbCalls + 1
               /\ ~mop.blocking /\ mop.hascb
               /\ mpc["bg"] = "m156" /\ mpc'["bg"] = "idle"
               /\ CachedDone]_vars
    /\ (/\ ~mop.blocking /\ mop.hascb
        /\ mpc["bg"] # "idle"
        /\ srv_move = "done")
         ~> (mpc["bg"] = "idle")


\* commands the server answers with a frame of the same serial number
\* (line 209 for run; get and set)
ReplyCmds == {"FUNC_WITH_RETURN", "CHAN_READ", "CHAN_SEND"}

\* the frames written to the command socket in this step
NewFrames == {cmd_wire'[i] : i \in (Len(cmd_wire) + 1)..Len(cmd_wire')}

\* C28: for every call that expects a reply (get, set, blocking run, run
\* with callback) the entry of its serial number is in _reply_events at the
\* moment its frame is written, and a call that waits for its reply has its
\* entry, so that the reply listener never handles the reply before the
\* entry exists.
C28_RegisteredBeforeSend ==
    [][/\ \A f \in NewFrames :
             f.cmd \in ReplyCmds => f.sn \in DOMAIN reply_events
       /\ \A t \in Threads :
             pc'[t] \in {"r226", "g247", "set274"}
               => tsn'[t] \in DOMAIN reply_events']_vars

\* the reply listener has found the entry of a reply whose call is still
\* waiting, while a second call that expects a reply has written its frame
C28_Witness ==
    /\ rpc = "r320"
    /\ \E t \in Threads :
          /\ pc[t] \in {"r226", "g247", "set274"}
          /\ tsn[t] = rres.sn
          /\ reply_events[tsn[t]] = "unset"
    /\ Len(cmd_wire) = 2
    /\ \A i \in 1..2 : cmd_wire[i].cmd \in ReplyCmds


\* thread t takes a step of an abort call
AbortActs(t) == op[t].kind = "abort" /\ pc[t] # "idle" /\ pc'[t] # pc[t]

\* what abort does to the client: one ABORT frame, written by the step that
\* ends the call, and no change to the tables
AbortFrameEffect ==
    \A t \in Threads :
        AbortActs(t)
          => /\ reply_events' = reply_events
             /\ reply_data' = reply_data
             /\ subscriptions' = subscriptions
             /\ screen_print' = screen_print
             /\ IF pc'[t] = "idle"
                   THEN /\ Len(cmd_wire') = Len(cmd_wire) + 1
                        /\ \A f \in NewFrames :
                              f.cmd = "ABORT" /\ f.sn = tsn[t]
                   ELSE cmd_wire' = cmd_wire

\* C27: abort() writes exactly one ABORT frame and registers no pending
\* call: _reply_events, _reply_data, the subscription table and
\* _screen_print are unchanged by it; and it returns without waiting for any
\* frame: what keeps an abort call from going on is never a thread that
\* waits for a reply.
C27_AbortSendsAndReturns ==
    /\ [](\A t \in Threads, u \in Threads :
            (pc[t] = "a337" /\ lock = u) => ~WaitsForReply(u))
    /\ [][AbortFrameEffect]_vars


\* C29: a reader loop ends for no reason other than a failure of the
\* transport: no interleaving of inbound frames with subscribe and
\* unsubscribe calls, and no frame the codec accepts, ends the event
\* listener or the reply listener with an exception of its own.
C29_ReadersNeverStop ==
    /\ lpc # "dead"
    /\ rpc # "dead"


\* the event listener ends its step of lines 331-332 for a subscribed name
DispatchesEvent ==
    /\ lpc = "l331"
    /\ lpc' # "l331"
    /\ lres.name \in DOMAIN subscriptions

\* the reply listener ends its step of lines 319-323 for a one-shot callback
DispatchesReply ==
    /\ rpc = "r319"
    /\ rpc' # "r319"
    /\ rres.sn \in DOMAIN reply_events
    /\ reply_events[rres.sn] = "callback"

\* C30: a reader never waits for a subscriber callback or a one-shot
\* callback to finish: whatever the threads of earlier callbacks do (run on
\* for ever, return, raise), the reader that dispatches a frame starts a
\* thread for every callback subscribed to it and is then back at reading
\* the next frame.
C30_ReaderNeverWaits ==
    [][/\ DispatchesEvent
            => /\ lpc' = "l327"
               /\ \A c \in DOMAIN invoked :
                     /\ invoked'[c] = invoked[c]
                           + Occurrences(subscriptions[lres.name], c)
                     /\ running'[c] = running[c]
                           + Occurrences(subscriptions[lres.name], c)
       /\ DispatchesReply
            => /\ rpc' = "r311"
               /\ running'[OneShot] = running[OneShot] + 1]_vars

\* the event listener is back at reading after it dispatched a second event
\* of "p" to both callbacks, while the thread started with cb1 for the first
\* event has not returned and one started with cb2 has raised; the reply
\* listener is back at reading while a one-shot callback runs
C30_Witness ==
    /\ lpc = "l327"
    /\ invoked["cb1"] = 2
    /\ invoked["cb2"] = 2
    /\ running["cb1"] = 2
    /\ "cb2" \in raised
    /\ rpc = "r311"
    /\ running[OneShot] >= 1


\* a frame written by one of the two senders has been read
RoundTrip == tx.path \in {"SpecSocket", "Client"} /\ rx # NoRx

\* C22: for every frame with valid header fields, decoding the bytes that
\* encoding produced yields the same serial number, command, type, rows,
\* cols, body length, error code, flags and body, and the name truncated to
\* 80 bytes with its trailing NULs stripped.
C22_FrameRoundTrip ==
    RoundTrip
      => /\ rx.status = "ok"
         /\ rx.sn = tx.sn
         /\ rx.cmd = tx.cmd
         /\ rx.type = tx.type
         /\ rx.rows = tx.rows
         /\ rx.cols = tx.cols
         /\ rx.len = Len(tx.body)
         /\ rx.err = tx.err
         /\ rx.flags = FlagsWord(tx.flags)
         /\ rx.body = tx.body
         /\ rx.name = RStripNul(SubSeq(PackName(tx.name), 1, SV_NAME_LEN))

\* C23: receiving a frame fails and delivers no frame if its magic number is
\* not the magic of the protocol or its version is below 4, on every receive
\* path: SpecSocket.recv_spec and the reader of the Client.
C23_BadHeaderRejected ==
    (rx # NoRx /\ (tx.magic # SV_SPEC_MAGIC \/ tx.vers < SV_VERSION))
      => rx.status # "ok"


\* C24: for a numeric array frame of at least one row and one column whose
\* body holds rows * cols elements,
\* Var.value is a flat sequence of max(rows, cols) elements when rows = 1 or
\* cols = 1 and a rows x cols grid otherwise, and it has as many dimensions
\* as ArrayVar.shape reports for the same frame.
C24_ValueDimensionality ==
    (/\ var_res # NoVarRes
     /\ WellFormed(var_res)
     /\ var_value # NoValue
     /\ arr_shape # NoValue)
      => /\ var_value.status = "ok"
         /\ arr_shape.status = "ok"
         /\ var_value.dims =
                IF var_res.rows = 1 \/ var_res.cols = 1
                THEN <<Max(var_res.rows, var_res.cols)>>
                ELSE <<var_res.rows, var_res.cols>>
         /\ Len(var_value.dims) = Len(arr_shape.dims)

\* C26: insert and delete on an array object and on a view of a row always
\* end with the exception and give no command to the server.
ShapeOps == {"insert", "delitem", "sub_insert", "sub_delitem"}
C26_ShapeImmutable ==
    [][/\ arr_result'.op \in ShapeOps => arr_result'.outcome = "Exception"
       /\ arr_sent' # arr_sent => arr_result'.op \notin ShapeOps]_vars

\* C26 witness: after an element was set, which sent its command, an insert
\* has failed and the commands sent are still that one.
C26_Witness ==
    /\ arr_result = Ended("insert", "Exception")
    /\ Len(arr_sent) = 1


\* C25: connect_spec goes through the candidates in the order explicit
\* port, explicit port list, inclusive port range; it returns the first
\* candidate in that order whose server answers HELLO with HELLO_REPLY,
\* however the candidates before it failed, and it raises only if the
\* server of no candidate answers with HELLO_REPLY.
Answering == {i \in 1..Len(tried) : tried[i] = "hello"}
C25_FirstAnsweringPort ==
    /\ conn_result.status = "returned"
         => \E i \in Answering :
               /\ conn_result.port = to_scan[i]
               /\ \A j \in Answering : i <= j
    /\ conn_result.status = "Exception" => Answering = {}


\* C21: after count has returned, its result maps every known counter to
\* the value the final get obtained, and the subscription table is as it
\* was before the call: count's callback is registered nowhere, and the
\* property of a counter that had no other subscriber is neither in the
\* table nor registered with the server.
C21_ResultIsFinal ==
    cnt_pc = "returned" =>
        \A c \in counter_names : countvals[c] = got
C21_TableRestored ==
    cnt_pc = "returned" =>
        /\ subscriptions = subs_before
        /\ \A n \in DOMAIN subscriptions :
              ~InList(CountCallback, subscriptions[n])
        /\ CounterProp \notin DOMAIN subs_before =>
              CounterProp \notin serverRegs
C21_CountResult == C21_ResultIsFinal /\ C21_TableRestored


\* the reply listener has processed an output frame in this step
OutputProcessed == nReplies' = nReplies + 1 /\ rres'.name = OutputName

\* s ends with the prompt terminator
EndsWithPrompt(s) == Len(s) >= 3 /\ SubSeq(s, Len(s) - 2, Len(s)) = Prompt

\* C31: an output frame is added to the accumulator whatever its serial
\* number is; when the accumulated text ends with the prompt terminator the
\* text is attached to the result of the command in flight and the
\* accumulator is reset to empty.
C31_PromptResets ==
    [][OutputProcessed =>
         /\ UNCHANGED <<reply_events, reply_data>>
         /\ IF EndsWithPrompt(screen_print \o rres'.body)
              THEN screen_print' = <<>>
              ELSE Len(screen_print \o rres'.body) <= MAX_SCREEN_PRINT_LEN
                     => screen_print' = screen_print \o rres'.body]_vars

\* C39: after the reply listener has processed an output frame the
\* accumulator holds at most MAX_SCREEN_PRINT_LEN characters, and when the
\* text was longer it holds the last MAX_SCREEN_PRINT_LEN characters of it.
C39_AccumulatorBounded ==
    [][OutputProcessed =>
         LET text == screen_print \o rres'.body
         IN /\ Len(screen_print') <= MAX_SCREEN_PRINT_LEN
            /\ Len(text) > MAX_SCREEN_PRINT_LEN =>
                 screen_print' =
                     SubSeq(text, Len(text) - MAX_SCREEN_PRINT_LEN + 1,
                            Len(text))]_vars

\* C39 witness: after a long segment of "b" and a longer half of "c" the
\* accumulator is full and holds all of the "c" and all but the first two
\* "b".
C39_Witness ==
    /\ Len(screen_print) = MAX_SCREEN_PRINT_LEN
    /\ screen_print[1] = "b"
    /\ screen_print[MAX_SCREEN_PRINT_LEN \div 2 - 1] = "b"
    /\ screen_print[MAX_SCREEN_PRINT_LEN \div 2] = "c"
    /\ screen_print[MAX_SCREEN_PRINT_LEN] = "c"


\* a thread of set_and_notify executes its setattr in this step
SetBy(c) ==
    /\ c \in cbs
    /\ c.stage = "set"
    /\ [c EXCEPT !.stage = "notify"] \in cbs'
    /\ c \notin cbs'

\* C32: an event of one observed property of the motor updates the cached
\* value of that property only: the thread started for an event of the
\* position leaves the cached value of move_done as it is.
C32_OnlyItsProperty ==
    [][\A c \in cbs :
          (SetBy(c) /\ c.body \in PositionBodies)
             => move_done_attr' = move_done_attr]_vars

\* the body of the last event of move_done the server has sent
LastMoveDone == IF srv_move = "done" THEN Idle ELSE Busy

\* C33: once every delivered event has been processed, and no call is about
\* to store a forced read, the cached value of move_done is the body of the
\* most recently delivered event of move_done (or that of an event of the
\* position, which set_and_notify stores in the same attribute): it is not
\* the body of an older event of move_done or of an older forced read.
C33_NewestEventWins ==
    (/\ srv_move # "idle"
     /\ cbs = {}
     /\ \A th \in MotorThreads : mpc[th] # "m143s")
       => \/ move_done_attr = LastMoveDone
          \/ move_done_attr \in PositionBodies


\* C40: when the status trigger returned is finished, read returns the
\* final value of the counter, the one the final get of that count
\* obtained, however the callback threads of count are scheduled.
C40_FinishedMeansRead ==
    status = "finished" => data = got


\* C35: whenever a subscribe call returns False, after an answer on the
\* error channel or after the timeout, the property has no entry in the
\* subscription table, so that the next subscribe for it takes the branch
\* of line 154 and sends REGISTER again.
C35_FailureLeavesNoEntry ==
    [][\A t \in Threads :
          (/\ pc[t] # "idle"
           /\ op[t].kind = "subscribe"
           /\ pc'[t] = "idle"
           /\ ret'[t] = "False")
          => op[t].prop \notin DOMAIN subscriptions']_vars


C34_BodyReadWhole ==
    /\ rd_asked <= ChunkSize
    /\ rd_pc = "returned" => rd_read = rd_len


\* C37: Motor objects are independent: when the thread of an object's own
\* callback has handled the move_done event that reports the end of the
\* move, a caller blocked in that object's moveto has been woken, also when
\* another Motor object was constructed while the caller was blocked.
C37_CompletionWakes ==
    [][\A t \in cb_threads \ cb_threads' :
          (/\ t.key.prop = "move_done"
           /\ t.kind = "move"
           /\ t.body = Idle
           /\ mv[t.cb.self].pc = "m147")
          => mv'[t.cb.self].waiting = 0]_vars

\* C38: when __del__ of a Motor object has run, none of the callbacks the
\* object registered is in the subscription table, however many Motor
\* objects have been created.
C38_DelRemovesOwnCallbacks ==
    \A m \in Objects :
        obj[m].state = "gone"
          => \A k \in MotorKeys :
                \A j \in 1..Len(motor_subs[k]) : motor_subs[k][j].self # m

====
